---- MODULE Spec2Model ----
(***************************************************************************)
(* Model of the mamushi front end.                                         *)
(*                                                                         *)
(* Part 1: the tokenizer of src/src/frontend/lexer.rs.  The state is the   *)
(* Lexer struct (src, start, current, indent_stack, tokens) together with  *)
(* the diagnostics written to stderr and the outcome of analyze().  One    *)
(* action is one call of Lexer::lex() from the loop of Lexer::analyze(),   *)
(* split by the arm of the `match ch` that the call takes.                 *)
(*                                                                         *)
(* A source text is a sequence of characters; a character is a one         *)
(* character string, except "U+00E9" which stands for a character whose    *)
(* UTF-8 encoding is two bytes long, and NUL which is the character '\0'.  *)
(*                                                                         *)
(* Part 2: the parser of src/src/frontend/parser.rs.  The state is the     *)
(* Parser struct (tokens, current) with the diagnostics it has written,    *)
(* the local `statements` of Parser::parse() and the position of parse().  *)
(* One action is one iteration of the loop of parse(); the productions are *)
(* operators from a parser to a parser and an Option.                      *)
(***************************************************************************)
EXTENDS Integers, Sequences, FiniteSets, TLC

VARIABLES src, start, current, indent_stack, tokens, diag, status, panic,
          parser, statements, phase

lexer_vars ==
    <<src, start, current, indent_stack, tokens, diag, status, panic>>

parser_vars == <<parser, statements, phase>>

vars ==
    <<src, start, current, indent_stack, tokens, diag, status, panic,
      parser, statements, phase>>

---------------------------------------------------------------------------
(* Bounds of the model.                                                    *)

MaxLen == 3

MaxLines == 4

MaxDigits == 20

MaxTokens == 3

MaxOperators == 2

MaxElements == 2

MaxPostfix == 4

MaxElifs == 2

---------------------------------------------------------------------------
(* Characters.                                                             *)

NUL == "NUL"

PANIC == "PANIC"

Digits == {"0", "1", "2", "3", "4", "5", "6", "7", "8", "9"}

Letters ==
    {"a", "b", "c", "d", "e", "f", "g", "h", "i", "j", "k", "l", "m",
     "n", "o", "p", "q", "r", "s", "t", "u", "v", "w", "x", "y", "z",
     "A", "B", "C", "D", "E", "F", "G", "H", "I", "J", "K", "L", "M",
     "N", "O", "P", "Q", "R", "S", "T", "U", "V", "W", "X", "Y", "Z"}

is_ascii_digit(c) == c \in Digits

is_ascii_alphabetic(c) == c \in Letters

is_ascii_alphanumeric(c) == c \in Digits \cup Letters

Utf8Len(c) == IF c = "U+00E9" THEN 2 ELSE 1

RECURSIVE ByteLen(_)
ByteLen(s) == IF s = <<>> THEN 0 ELSE Utf8Len(Head(s)) + ByteLen(Tail(s))

(* The checked sources.  First, every text of at most MaxLen characters    *)
(* over an identifier character, a digit, the three blank characters, the  *)
(* newline, the comment sign, a quote, the backslash and a non-ASCII       *)
(* character.                                                              *)
Alphabet == {"a", "9", " ", "\t", "\r", "\n", "#", "\"", "\\", "U+00E9"}

BoundedSources == UNION {[1..n -> Alphabet] : n \in 0..MaxLen}

(* Second, the runs of at most MaxDigits digits.                           *)
DigitRuns == {[i \in 1..n |-> "9"] : n \in 1..MaxDigits}

(* Third, the texts of at most MaxLines lines separated by newlines, a     *)
(* line being blanks of width 0, 1 or 4 followed by an identifier or by    *)
(* nothing (an empty last line is a text that ends with a newline).        *)
LinePieces ==
    {i \o c : i \in {<<>>, <<" ">>, <<"\t">>}, c \in {<<>>, <<"a">>}}

RECURSIVE JoinLines(_)
JoinLines(ls) ==
    IF Len(ls) = 1 THEN ls[1]
    ELSE ls[1] \o <<"\n">> \o JoinLines(Tail(ls))

LineSources ==
    {JoinLines(ls) : ls \in UNION {[1..n -> LinePieces] : n \in 1..MaxLines}}

(* Fourth, the words: the twenty-five keywords that test_keywords of       *)
(* lexer_tests.rs tokenizes, and other identifier-shaped texts, each alone *)
(* in the source.                                                          *)
TestedKeywords ==
    {<<"a","n","d">>, <<"o","r">>, <<"n","o","t">>, <<"i","f">>,
     <<"e","l","i","f">>, <<"e","l","s","e">>, <<"w","h","i","l","e">>,
     <<"f","o","r">>, <<"i","n">>, <<"b","r","e","a","k">>,
     <<"c","o","n","t","i","n","u","e">>, <<"r","e","t","u","r","n">>,
     <<"d","e","f">>, <<"c","l","a","s","s">>, <<"p","a","s","s">>,
     <<"i","m","p","o","r","t">>, <<"f","r","o","m">>,
     <<"p","r","i","n","t">>, <<"g","l","o","b","a","l">>, <<"d","e","l">>,
     <<"t","r","y">>, <<"e","x","c","e","p","t">>, <<"r","a","i","s","e">>,
     <<"i","s">>, <<"l","a","m","b","d","a">>}

OtherWords ==
    {<<"a","s">>, <<"n","o","n","e">>, <<"t","r","u","e">>,
     <<"f","a","l","s","e">>, <<"i">>, <<"i","f","s">>, <<"I","f">>,
     <<"_","i","f">>, <<"i","f","9">>, <<"d","e">>, <<"a","n","_","d">>}

WordSources == TestedKeywords \cup OtherWords

Sources == BoundedSources \cup DigitRuns \cup LineSources \cup WordSources

---------------------------------------------------------------------------
(* Tokens (crate::core::token as the tokenizer uses it).                   *)

NoLiteral == [kind |-> "None", value |-> <<>>]

Literal(k, v) == [kind |-> k, value |-> v]

Token(token_type, literal, span) ==
    [token_type |-> token_type, literal |-> literal, span |-> span]

KEYWORDS ==
    [k \in {<<"a","n","d">>, <<"o","r">>, <<"n","o","t">>, <<"i","f">>,
            <<"e","l","i","f">>, <<"e","l","s","e">>,
            <<"w","h","i","l","e">>, <<"f","o","r">>, <<"i","n">>,
            <<"b","r","e","a","k">>,
            <<"c","o","n","t","i","n","u","e">>,
            <<"r","e","t","u","r","n">>, <<"d","e","f">>,
            <<"c","l","a","s","s">>, <<"p","a","s","s">>,
            <<"i","m","p","o","r","t">>, <<"f","r","o","m">>,
            <<"a","s">>, <<"p","r","i","n","t">>,
            <<"g","l","o","b","a","l">>, <<"d","e","l">>,
            <<"t","r","y">>, <<"e","x","c","e","p","t">>,
            <<"r","a","i","s","e">>, <<"i","s">>,
            <<"l","a","m","b","d","a">>, <<"n","o","n","e">>,
            <<"t","r","u","e">>, <<"f","a","l","s","e">>} |->
        CASE k = <<"a","n","d">> -> "And"
          [] k = <<"o","r">> -> "Or"
          [] k = <<"n","o","t">> -> "Not"
          [] k = <<"i","f">> -> "If"
          [] k = <<"e","l","i","f">> -> "Elif"
          [] k = <<"e","l","s","e">> -> "Else"
          [] k = <<"w","h","i","l","e">> -> "While"
          [] k = <<"f","o","r">> -> "For"
          [] k = <<"i","n">> -> "In"
          [] k = <<"b","r","e","a","k">> -> "Break"
          [] k = <<"c","o","n","t","i","n","u","e">> -> "Continue"
          [] k = <<"r","e","t","u","r","n">> -> "Return"
          [] k = <<"d","e","f">> -> "Def"
          [] k = <<"c","l","a","s","s">> -> "Class"
          [] k = <<"p","a","s","s">> -> "Pass"
          [] k = <<"i","m","p","o","r","t">> -> "Import"
          [] k = <<"f","r","o","m">> -> "From"
          [] k = <<"a","s">> -> "As"
          [] k = <<"p","r","i","n","t">> -> "Print"
          [] k = <<"g","l","o","b","a","l">> -> "Global"
          [] k = <<"d","e","l">> -> "Del"
          [] k = <<"t","r","y">> -> "Try"
          [] k = <<"e","x","c","e","p","t">> -> "Except"
          [] k = <<"r","a","i","s","e">> -> "Raise"
          [] k = <<"i","s">> -> "Is"
          [] k = <<"l","a","m","b","d","a">> -> "Lambda"
          [] k = <<"n","o","n","e">> -> "None"
          [] k = <<"t","r","u","e">> -> "True"
          [] k = <<"f","a","l","s","e">> -> "False"]

(* A lookup that finds no keyword.                                         *)
get_keywordNever(keyword) == <<>>

(* TokenType::get_keyword: Some(kind) as <<kind>>, None as <<>>.           *)
get_keyword(keyword) ==
    IF keyword \in DOMAIN KEYWORDS THEN <<KEYWORDS[keyword]>> ELSE <<>>

---------------------------------------------------------------------------
(* str slicing and number parsing of the standard library, as the          *)
(* tokenizer calls them.                                                   *)

(* Byte offset of the character with (0-based) character index i.          *)
RECURSIVE ByteOffset(_, _)
ByteOffset(s, i) ==
    IF i = 0 THEN 0 ELSE ByteOffset(s, i - 1) + Utf8Len(s[i])

is_char_boundary(s, b) == \E i \in 0..Len(s) : ByteOffset(s, i) = b

CharIndexAt(s, b) == CHOOSE i \in 0..Len(s) : ByteOffset(s, i) = b

(* &s[b..e] for byte offsets b and e: it panics (ok is FALSE) unless b <= e *)
(* and both are character boundaries within the text, and is else the      *)
(* characters between them.                                                *)
ByteSlice(s, b, e) ==
    IF b <= e /\ is_char_boundary(s, b) /\ is_char_boundary(s, e)
    THEN [ok |-> TRUE, text |-> SubSeq(s, CharIndexAt(s, b) + 1, CharIndexAt(s, e))]
    ELSE [ok |-> FALSE, text |-> <<>>]

AllDigits(t) == \A i \in 1..Len(t) : is_ascii_digit(t[i])

DigitValue(c) ==
    CASE c = "0" -> 0 [] c = "1" -> 1 [] c = "2" -> 2 [] c = "3" -> 3
      [] c = "4" -> 4 [] c = "5" -> 5 [] c = "6" -> 6 [] c = "7" -> 7
      [] c = "8" -> 8 [] c = "9" -> 9

RECURSIVE StripZeros(_)
StripZeros(d) ==
    IF Len(d) > 1 /\ Head(d) = "0" THEN StripZeros(Tail(d)) ELSE d

(* d > lim for two digit sequences of the same length.                     *)
RECURSIVE DigitsGreater(_, _)
DigitsGreater(d, lim) ==
    IF d = <<>> THEN FALSE
    ELSE IF DigitValue(Head(d)) # Head(lim)
         THEN DigitValue(Head(d)) > Head(lim)
         ELSE DigitsGreater(Tail(d), Tail(lim))

(* The decimal digits of i64::MAX = 9223372036854775807.                   *)
I64MaxDigits == <<9, 2, 2, 3, 3, 7, 2, 0, 3, 6, 8, 5, 4, 7, 7, 5, 8, 0, 7>>

(* The decimal digits of -i64::MIN = 9223372036854775808.                  *)
I64MinDigits == <<9, 2, 2, 3, 3, 7, 2, 0, 3, 6, 8, 5, 4, 7, 7, 5, 8, 0, 8>>

Exceeds(d, lim) ==
    \/ Len(d) > Len(lim)
    \/ Len(d) = Len(lim) /\ DigitsGreater(d, lim)

(* str::parse::<i64>: an optional sign and one or more digits, the value   *)
(* within the range of i64.  The value is kept as its sign and its         *)
(* decimal digits without leading zeros.                                   *)
ParseI64(text) ==
    LET signed == text # <<>> /\ Head(text) \in {"+", "-"}
        digits == IF signed THEN Tail(text) ELSE text
        neg == signed /\ Head(text) = "-"
        mag == StripZeros(digits)
    IN  IF digits = <<>> \/ ~AllDigits(digits)
        THEN [ok |-> FALSE, value |-> <<>>]
        ELSE IF Exceeds(mag, IF neg THEN I64MinDigits ELSE I64MaxDigits)
        THEN [ok |-> FALSE, value |-> <<>>]
        ELSE [ok |-> TRUE,
              value |-> IF neg /\ mag # <<"0">> THEN <<"-">> \o mag ELSE mag]

(* The position of the first character of t that is not a digit, from i.   *)
RECURSIVE DigitsEnd(_, _)
DigitsEnd(t, i) ==
    IF i <= Len(t) /\ is_ascii_digit(t[i]) THEN DigitsEnd(t, i + 1) ELSE i

Lower(c) ==
    CASE c = "I" -> "i" [] c = "N" -> "n" [] c = "F" -> "f" [] c = "T" -> "t"
      [] c = "Y" -> "y" [] c = "A" -> "a" [] OTHER -> c

(* str::parse::<f64>: an optional sign, then inf, infinity or nan, or a    *)
(* decimal number with at least one digit, an optional fraction and an     *)
(* optional exponent.  The value is kept as its text.                      *)
ParseF64(text) ==
    IF text = <<>> THEN [ok |-> FALSE, value |-> <<>>]
    ELSE
    LET signed == Head(text) \in {"+", "-"}
        body == IF signed THEN Tail(text) ELSE text
        low == [i \in 1..Len(body) |-> Lower(body[i])]
        n == Len(body)
        intEnd == DigitsEnd(body, 1)
        hasDot == intEnd <= n /\ body[intEnd] = "."
        fracEnd == IF hasDot THEN DigitsEnd(body, intEnd + 1) ELSE intEnd
        mantissaDigits == (intEnd - 1) + (IF hasDot THEN fracEnd - intEnd - 1 ELSE 0)
        hasExp == fracEnd <= n /\ body[fracEnd] \in {"e", "E"}
        expSign == hasExp /\ fracEnd + 1 <= n /\ body[fracEnd + 1] \in {"+", "-"}
        expStart == IF expSign THEN fracEnd + 2 ELSE fracEnd + 1
        expEnd == IF hasExp THEN DigitsEnd(body, expStart) ELSE fracEnd
        decimal == /\ mantissaDigits >= 1
                   /\ hasExp => expEnd > expStart
                   /\ expEnd = n + 1
        word == low \in {<<"i","n","f">>, <<"n","a","n">>,
                         <<"i","n","f","i","n","i","t","y">>}
    IN  IF word \/ decimal THEN [ok |-> TRUE, value |-> text]
        ELSE [ok |-> FALSE, value |-> <<>>]

---------------------------------------------------------------------------
(* The Lexer struct and its private helpers.  A lexer value `self` is a    *)
(* record of the fields of the struct, of the diagnostics printed so far   *)
(* and of the message of the panic that stopped it ("" while none did).    *)

new(source) ==
    [src |-> source, start |-> 0, current |-> 0, indent_stack |-> <<0>>,
     tokens |-> <<>>, diag |-> <<>>, panic |-> ""]

Panicked(self, msg) == [self EXCEPT !.panic = msg]

eprintln(self, msg) == [self EXCEPT !.diag = Append(@, msg)]

(* Variant of at_end that stops one character early.                       *)
at_endOneEarly(self) == self.current + 1 >= ByteLen(self.src)

at_end(self) == self.current >= ByteLen(self.src)

(* src.chars().nth(i): Some(c) as <<c>>, None as <<>>.                     *)
nth(source, i) == IF i < Len(source) THEN <<source[i + 1]>> ELSE <<>>

(* The character under the cursor, NUL at the end of the text, PANIC when  *)
(* the expect() fails.                                                     *)
peek(self) ==
    IF at_end(self) THEN NUL
    ELSE IF nth(self.src, self.current) = <<>> THEN PANIC
    ELSE nth(self.src, self.current)[1]

peek_next(self) ==
    IF self.current + 1 >= ByteLen(self.src) THEN NUL
    ELSE IF nth(self.src, self.current + 1) = <<>> THEN PANIC
    ELSE nth(self.src, self.current + 1)[1]

(* advance(): the character read (PANIC when the expect() fails) and the   *)
(* lexer after it.                                                         *)
advance(self) ==
    IF nth(self.src, self.current) = <<>>
    THEN [ch |-> PANIC,
          self |-> Panicked(self, "Error while peeking in advance()...")]
    ELSE [ch |-> nth(self.src, self.current)[1],
          self |-> [self EXCEPT !.current = @ + 1]]

(* match_advance(expected): the result ("true", "false" or PANIC) and the  *)
(* lexer after it.                                                         *)
match_advance(self, expected) ==
    IF at_end(self) THEN [res |-> "false", self |-> self]
    ELSE IF nth(self.src, self.current) = <<>>
    THEN [res |-> PANIC,
          self |-> Panicked(self, "Error while peeking in match_advance()...")]
    ELSE IF nth(self.src, self.current)[1] # expected
    THEN [res |-> "false", self |-> self]
    ELSE [res |-> "true", self |-> [self EXCEPT !.current = @ + 1]]

add_token(self, token_type, literal) ==
    [self EXCEPT !.tokens =
        Append(@, Token(token_type, literal, <<self.start, self.current>>))]

---------------------------------------------------------------------------
(* handle_number                                                           *)

(* while self.peek().is_ascii_digit() { self.advance(); }                  *)
RECURSIVE SkipDigits(_)
SkipDigits(self) ==
    IF peek(self) = PANIC THEN Panicked(self, "Error while peeking")
    ELSE IF is_ascii_digit(peek(self)) THEN SkipDigits(advance(self).self)
    ELSE self

(* The literal of a number token: the slice start..current of the text,    *)
(* parsed; a failed slice or a failed parse panics.                        *)
NumberToken(self, token_type) ==
    LET slice == ByteSlice(self.src, self.start, self.current)
        parsed == IF token_type = "Float" THEN ParseF64(slice.text)
                  ELSE ParseI64(slice.text)
    IN  IF ~slice.ok THEN Panicked(self, "byte index is not a char boundary")
        ELSE IF ~parsed.ok THEN Panicked(self, "Error while parsing number...")
        ELSE add_token(self, token_type, Literal(token_type, parsed.value))

handle_number(self) ==
    LET s1 == SkipDigits(self)
        s2 == SkipDigits(advance(s1).self)
    IN  IF s1.panic # "" THEN s1
        ELSE IF peek(s1) = "." /\ peek_next(s1) = PANIC
        THEN Panicked(s1, "Error while peeking")
        ELSE IF peek(s1) = "." /\ is_ascii_digit(peek_next(s1))
        THEN IF s2.panic # "" THEN s2 ELSE NumberToken(s2, "Float")
        ELSE NumberToken(s1, "Int")

---------------------------------------------------------------------------
(* handle_indentation                                                      *)

TabWidth == 4

(* Variant of MeasureIndent that counts a carriage return as one column.   *)
RECURSIVE MeasureIndentCountsCR(_, _)
MeasureIndentCountsCR(self, indent) ==
    IF peek(self) = PANIC
    THEN [self |-> Panicked(self, "Error while peeking"), indent |-> indent]
    ELSE IF peek(self) \in {"\n", NUL} THEN [self |-> self, indent |-> indent]
    ELSE IF peek(self) \in {" ", "\r"}
    THEN MeasureIndentCountsCR(advance(self).self, indent + 1)
    ELSE IF peek(self) = "\t"
    THEN MeasureIndentCountsCR(advance(self).self, indent + TabWidth)
    ELSE [self |-> self, indent |-> indent]

(* The measuring loop: the lexer after the blanks of the line and the      *)
(* width counted, starting from the width indent.                          *)
RECURSIVE MeasureIndent(_, _)
MeasureIndent(self, indent) ==
    IF peek(self) = PANIC
    THEN [self |-> Panicked(self, "Error while peeking"), indent |-> indent]
    ELSE IF peek(self) \in {"\n", NUL} THEN [self |-> self, indent |-> indent]
    ELSE IF peek(self) = " " THEN MeasureIndent(advance(self).self, indent + 1)
    ELSE IF peek(self) = "\t"
    THEN MeasureIndent(advance(self).self, indent + TabWidth)
    ELSE IF peek(self) = "\r" THEN MeasureIndent(advance(self).self, indent)
    ELSE [self |-> self, indent |-> indent]

(* Variant of PopLoop that emits a single Dedent for all the pops of a     *)
(* line.                                                                   *)
PopLoopOneDedent(self, indent) ==
    LET Kept(x) == x <= indent
    IN  IF self.indent_stack = <<>> \/ indent >= self.indent_stack[Len(self.indent_stack)]
        THEN self
        ELSE add_token([self EXCEPT !.indent_stack = SelectSeq(@, Kept)],
                       "Dedent", NoLiteral)

(* while let Some(&top) = self.indent_stack.last() { ... }                 *)
RECURSIVE PopLoop(_, _)
PopLoop(self, indent) ==
    IF self.indent_stack = <<>> THEN self
    ELSE IF indent < self.indent_stack[Len(self.indent_stack)]
    THEN PopLoop(add_token([self EXCEPT !.indent_stack =
                                SubSeq(@, 1, Len(@) - 1)],
                           "Dedent", NoLiteral), indent)
    ELSE self

(* Variant of IndentTransition that pushes a width equal to the top of     *)
(* the stack as well.                                                      *)
IndentTransitionPushEqual(self, indent) ==
    LET popped == PopLoop(self, indent)
    IN  IF indent >= self.indent_stack[Len(self.indent_stack)]
        THEN add_token([self EXCEPT !.indent_stack = Append(@, indent)],
                       "Indent", NoLiteral)
        ELSE IF popped.indent_stack[Len(popped.indent_stack)] # indent
        THEN Panicked(popped, "Inconsistent indentation")
        ELSE popped

(* Variant of IndentTransition that does not compare the width with the    *)
(* top of the stack after the pops.                                        *)
IndentTransitionUnchecked(self, indent) ==
    IF indent > self.indent_stack[Len(self.indent_stack)]
    THEN add_token([self EXCEPT !.indent_stack = Append(@, indent)],
                   "Indent", NoLiteral)
    ELSE PopLoop(self, indent)

(* The comparison of the measured width with the top of the stack.         *)
IndentTransition(self, indent) ==
    LET popped == PopLoop(self, indent)
    IN  IF self.indent_stack = <<>>
        THEN Panicked(self, "called Option::unwrap() on a None value")
        ELSE IF indent > self.indent_stack[Len(self.indent_stack)]
        THEN add_token([self EXCEPT !.indent_stack = Append(@, indent)],
                       "Indent", NoLiteral)
        ELSE IF indent < self.indent_stack[Len(self.indent_stack)]
        THEN IF popped.indent_stack = <<>>
             THEN Panicked(popped, "called Option::unwrap() on a None value")
             ELSE IF popped.indent_stack[Len(popped.indent_stack)] # indent
             THEN Panicked(popped, "Inconsistent indentation")
             ELSE popped
        ELSE self

handle_indentation(self) ==
    LET m == MeasureIndent(self, 0)
        t == IndentTransition(m.self, m.indent)
    IN  IF m.self.panic # "" THEN m.self
        ELSE IF t.panic # "" THEN t
        ELSE [t EXCEPT !.start = t.current]

---------------------------------------------------------------------------
(* handle_string                                                           *)

(* The character an escape sequence \e stands for in a string delimited    *)
(* by str_char.                                                            *)
Escaped(e, str_char) ==
    CASE e = "n" -> "\n"
      [] e = "t" -> "\t"
      [] e = "r" -> "\r"
      [] OTHER -> e

KnownEscape(e, str_char) == e \in {"n", "t", "r", "\\", str_char}

RECURSIVE StringLoop(_, _, _)

(* Variant of the loop that returns before the newline.                    *)
StringLoopBeforeNewline(self, str_char, value) ==
    IF peek(self) = PANIC
    THEN [self |-> Panicked(self, "Error while peeking"), value |-> value,
          ret |-> "panic"]
    ELSE IF peek(self) # str_char /\ ~at_end(self)
    THEN LET a == advance(self)
             e == advance(a.self)
         IN  IF a.ch = "\\"
             THEN IF e.ch = PANIC
                  THEN [self |-> e.self, value |-> value, ret |-> "panic"]
                  ELSE StringLoop(
                          IF KnownEscape(e.ch, str_char) THEN e.self
                          ELSE eprintln(e.self, "Unknown escape sequence"),
                          str_char, Append(value, Escaped(e.ch, str_char)))
             ELSE IF a.ch = "\n"
             THEN [self |-> eprintln(self, "Unterminated string"),
                   value |-> value, ret |-> "return"]
             ELSE StringLoop(a.self, str_char, Append(value, a.ch))
    ELSE [self |-> self, value |-> value, ret |-> "exit"]

(* The while loop of handle_string; ret is "return" when the function      *)
(* returned from inside the loop, "panic" when it panicked, and "exit"     *)
(* when the loop condition became false.                                   *)
StringLoop(self, str_char, value) ==
    IF peek(self) = PANIC
    THEN [self |-> Panicked(self, "Error while peeking"), value |-> value,
          ret |-> "panic"]
    ELSE IF peek(self) # str_char /\ ~at_end(self)
    THEN LET a == advance(self)
             e == advance(a.self)
         IN  IF a.ch = "\\"
             THEN IF e.ch = PANIC
                  THEN [self |-> e.self, value |-> value, ret |-> "panic"]
                  ELSE StringLoop(
                          IF KnownEscape(e.ch, str_char) THEN e.self
                          ELSE eprintln(e.self, "Unknown escape sequence"),
                          str_char, Append(value, Escaped(e.ch, str_char)))
             ELSE IF a.ch = "\n"
             THEN [self |-> eprintln(a.self, "Unterminated string"),
                   value |-> value, ret |-> "return"]
             ELSE StringLoop(a.self, str_char, Append(value, a.ch))
    ELSE [self |-> self, value |-> value, ret |-> "exit"]

handle_string(self, str_char) ==
    LET l == StringLoop(self, str_char, <<>>)
    IN  IF l.ret # "exit" THEN l.self
        ELSE IF at_end(l.self) \/ peek(l.self) # str_char
        THEN eprintln(l.self, "Unterminated string")
        ELSE add_token(advance(l.self).self, "String",
                       Literal("String", l.value))

---------------------------------------------------------------------------
(* handle_identifier                                                       *)

RECURSIVE SkipIdentifier(_)
SkipIdentifier(self) ==
    IF peek(self) = PANIC THEN Panicked(self, "Error while peeking")
    ELSE IF is_ascii_alphanumeric(peek(self)) \/ peek(self) = "_"
    THEN SkipIdentifier(advance(self).self)
    ELSE self

handle_identifier(self) ==
    LET s1 == SkipIdentifier(self)
        value == ByteSlice(s1.src, s1.start, s1.current)
    IN  IF s1.panic # "" THEN s1
        ELSE IF ~value.ok
        THEN Panicked(s1, "byte index is not a char boundary")
        ELSE IF get_keyword(value.text) # <<>>
        THEN add_token(s1, get_keyword(value.text)[1], NoLiteral)
        ELSE add_token(s1, "Identifier", Literal("Identifier", value.text))

---------------------------------------------------------------------------
(* The arms of `match ch` in lex(); self is the lexer after the advance()  *)
(* that read ch.                                                           *)

(* The operators of two characters: the second character, the kind of the  *)
(* long form and the kind of the short form.                               *)
TwoCharOps ==
    [c \in {"*", "<", ">", "=", "!"} |->
        CASE c = "*" -> <<"*", "StarStar", "Star">>
          [] c = "<" -> <<"=", "LessEqual", "Less">>
          [] c = ">" -> <<"=", "GreaterEqual", "Greater">>
          [] c = "=" -> <<"=", "EqualEqual", "Equal">>
          [] c = "!" -> <<"=", "NotEqual", "Not">>]

OneCharOps ==
    [c \in {"+", "-", "/", "%", "&", "|", "^", "~", "(", ")", "[", "]",
            "{", "}", ",", ":", ".", ";", "\\"} |->
        CASE c = "+" -> "Plus"
          [] c = "-" -> "Minus"
          [] c = "/" -> "Slash"
          [] c = "%" -> "Modulo"
          [] c = "&" -> "Ampersand"
          [] c = "|" -> "Pipe"
          [] c = "^" -> "Caret"
          [] c = "~" -> "Tilde"
          [] c = "(" -> "LParen"
          [] c = ")" -> "RParen"
          [] c = "[" -> "LBracket"
          [] c = "]" -> "RBracket"
          [] c = "{" -> "LBrace"
          [] c = "}" -> "RBrace"
          [] c = "," -> "Comma"
          [] c = ":" -> "Colon"
          [] c = "." -> "Dot"
          [] c = ";" -> "Semicolon"
          [] c = "\\" -> "Backslash"]

OperatorChars == DOMAIN TwoCharOps \cup DOMAIN OneCharOps

Quotes == {"\"", "'"}

Blanks == {" ", "\t", "\r"}

lex_operator(self, ch) ==
    LET m == match_advance(self, TwoCharOps[ch][1])
    IN  IF ch \in DOMAIN OneCharOps
        THEN add_token(self, OneCharOps[ch], NoLiteral)
        ELSE IF m.res = PANIC THEN m.self
        ELSE IF m.res = "true"
        THEN add_token(m.self, TwoCharOps[ch][2], NoLiteral)
        ELSE add_token(m.self, TwoCharOps[ch][3], NoLiteral)

(* Variant of lex_comment that consumes the newline that ends the comment. *)
RECURSIVE lex_commentThroughNewline(_)
lex_commentThroughNewline(self) ==
    IF peek(self) = PANIC THEN Panicked(self, "Error while peeking")
    ELSE IF peek(self) = NUL THEN self
    ELSE IF peek(self) = "\n" THEN advance(self).self
    ELSE lex_commentThroughNewline(advance(self).self)

(* '#' => while !matches!(self.peek(), '\n' | '\0') { self.advance(); }    *)
RECURSIVE lex_comment(_)
lex_comment(self) ==
    IF peek(self) = PANIC THEN Panicked(self, "Error while peeking")
    ELSE IF peek(self) \in {"\n", NUL} THEN self
    ELSE lex_comment(advance(self).self)

lex_newline(self) ==
    handle_indentation(
        [self EXCEPT !.tokens =
            Append(@, Token("Newline", NoLiteral, <<self.start, self.start>>))])

lex_unexpected(self) == eprintln(self, "Unexpected character")

---------------------------------------------------------------------------
(* The state machine: Lexer::new, then the loop of Lexer::analyze.         *)

Self ==
    [src |-> src, start |-> start, current |-> current,
     indent_stack |-> indent_stack, tokens |-> tokens, diag |-> diag,
     panic |-> panic]

(* The lexer and the character at the beginning of an iteration of the     *)
(* loop: self.start = self.current, then the advance() of lex().           *)
Dispatch == advance([Self EXCEPT !.start = current])

(* The state after the call of lex() that left the lexer r.                *)
Commit(r) ==
    /\ src' = r.src
    /\ start' = r.start
    /\ current' = r.current
    /\ indent_stack' = r.indent_stack
    /\ tokens' = r.tokens
    /\ diag' = r.diag
    /\ panic' = r.panic
    /\ status' = IF r.panic # "" THEN "panicked" ELSE "running"
    /\ UNCHANGED parser_vars

Looping == status = "running" /\ ~at_end(Self)

(* No parser has been constructed.                                         *)
NoParser ==
    /\ parser = [tokens |-> <<>>, current |-> 0, diag |-> <<>>, panic |-> ""]
    /\ statements = <<>>
    /\ phase = "none"

Init ==
    /\ src \in Sources
    /\ start = new(src).start
    /\ current = new(src).current
    /\ indent_stack = new(src).indent_stack
    /\ tokens = new(src).tokens
    /\ diag = new(src).diag
    /\ panic = new(src).panic
    /\ status = "running"
    /\ NoParser

(* lex() when the advance() finds no character under the cursor.           *)
LexPastChars ==
    /\ Looping
    /\ Dispatch.ch = PANIC
    /\ Commit(Dispatch.self)

LexOperator ==
    /\ Looping
    /\ Dispatch.ch \in OperatorChars
    /\ Commit(lex_operator(Dispatch.self, Dispatch.ch))

LexComment ==
    /\ Looping
    /\ Dispatch.ch = "#"
    /\ Commit(lex_comment(Dispatch.self))

LexString ==
    /\ Looping
    /\ Dispatch.ch \in Quotes
    /\ Commit(handle_string(Dispatch.self, Dispatch.ch))

LexNewline ==
    /\ Looping
    /\ Dispatch.ch = "\n"
    /\ Commit(lex_newline(Dispatch.self))

LexBlank ==
    /\ Looping
    /\ Dispatch.ch \in Blanks
    /\ Commit(Dispatch.self)

LexNumber ==
    /\ Looping
    /\ is_ascii_digit(Dispatch.ch)
    /\ Commit(handle_number(Dispatch.self))

LexIdentifier ==
    /\ Looping
    /\ is_ascii_alphabetic(Dispatch.ch) \/ Dispatch.ch = "_"
    /\ Commit(handle_identifier(Dispatch.self))

LexUnexpected ==
    /\ Looping
    /\ Dispatch.ch \notin
         OperatorChars \cup Quotes \cup Blanks \cup Digits \cup Letters
           \cup {"#", "\n", "_", PANIC}
    /\ Commit(lex_unexpected(Dispatch.self))

(* The end of analyze(): the loop is over and Eof is pushed.               *)
PushEof ==
    /\ status = "running"
    /\ at_end(Self)
    /\ tokens' = Append(tokens, Token("Eof", NoLiteral, <<current, current>>))
    /\ status' = "done"
    /\ UNCHANGED <<src, start, current, indent_stack, diag, panic>>
    /\ UNCHANGED parser_vars

Next ==
    \/ LexPastChars
    \/ LexOperator
    \/ LexComment
    \/ LexString
    \/ LexNewline
    \/ LexBlank
    \/ LexNumber
    \/ LexIdentifier
    \/ LexUnexpected
    \/ PushEof

Spec == Init /\ [][Next]_vars

---------------------------------------------------------------------------
(* Part 2: the parser.                                                     *)
(*                                                                         *)
(* The syntax tree of src/src/core/ast.rs: a node is a record whose field  *)
(* `node` names the variant of Expr, Target or Stmt.                       *)

Nil == [node |-> "Nil"]

ExprLiteral(value) == [node |-> "Literal", value |-> value]

ExprVariable(name) == [node |-> "Variable", name |-> name]

ExprUnary(op, expr) == [node |-> "Unary", op |-> op, expr |-> expr]

ExprBinary(left, op, right) ==
    [node |-> "Binary", left |-> left, op |-> op, right |-> right]

ExprGrouping(expr) == [node |-> "Grouping", expr |-> expr]

ExprCall(callee, args) == [node |-> "Call", callee |-> callee, args |-> args]

ExprTuple(exprs) == [node |-> "Tuple", exprs |-> exprs]

ExprList(elements) == [node |-> "List", elements |-> elements]

ExprDict(pairs) == [node |-> "Dict", pairs |-> pairs]

ExprGet(object, name) == [node |-> "Get", object |-> object, name |-> name]

ExprLambda(params, body) ==
    [node |-> "Lambda", params |-> params, body |-> body]

ExprIndex(object, index) ==
    [node |-> "Index", object |-> object, index |-> index]

TargetName(name) == [node |-> "Name", name |-> name]

TargetTuple(targets) == [node |-> "TargetTuple", targets |-> targets]

TargetAttribute(object, name) ==
    [node |-> "Attribute", object |-> object, name |-> name]

(* An Option together with the parser that computed it: Some(val) or None. *)
Some(p, val) == [p |-> p, some |-> TRUE, val |-> val]

None(p) == [p |-> p, some |-> FALSE, val |-> Nil]

---------------------------------------------------------------------------
(* The cursor of the parser.  p is the Parser struct with the diagnostics  *)
(* written so far and the message of the panic, if any.  An index out of   *)
(* the bounds of `tokens` reads the token OutOfBounds; the operation that  *)
(* reads it with a `&mut self` panics.  A parser that has panicked runs no *)
(* code: its operations change nothing and answer None or false.           *)

parser_new(ts) ==
    [tokens |-> ts, current |-> 0, diag |-> <<>>, panic |-> ""]

OutOfBounds == Token("OutOfBounds", NoLiteral, <<0, 0>>)

parser_peek(p) ==
    IF p.current < Len(p.tokens) THEN p.tokens[p.current + 1]
    ELSE OutOfBounds

peek_previous(p) ==
    IF p.current >= 1 /\ p.current <= Len(p.tokens) THEN p.tokens[p.current]
    ELSE OutOfBounds

is_at_end(p) == p.panic # "" \/ parser_peek(p).token_type = "Eof"

check(p, token_type) ==
    IF is_at_end(p) THEN FALSE ELSE parser_peek(p).token_type = token_type

(* Variant of advance that moves the cursor whatever the token under it.   *)
parser_advanceUnchecked(p) ==
    IF p.panic # "" THEN [p |-> p, tok |-> OutOfBounds]
    ELSE IF parser_peek(p) = OutOfBounds
    THEN [p |-> Panicked(p, "index out of bounds"), tok |-> OutOfBounds]
    ELSE [p |-> [p EXCEPT !.current = @ + 1], tok |-> parser_peek(p)]

parser_advance(p) ==
    IF p.panic # "" THEN [p |-> p, tok |-> OutOfBounds]
    ELSE IF parser_peek(p) = OutOfBounds
    THEN [p |-> Panicked(p, "index out of bounds"), tok |-> OutOfBounds]
    ELSE LET p1 == IF ~is_at_end(p) THEN [p EXCEPT !.current = @ + 1] ELSE p
         IN  IF peek_previous(p1) = OutOfBounds
             THEN [p |-> Panicked(p1, "index out of bounds"),
                   tok |-> OutOfBounds]
             ELSE [p |-> p1, tok |-> peek_previous(p1)]

(* `types` is the set of the kinds of the slice; a token has one kind, so  *)
(* the order of the slice does not matter.                                 *)
matches(p, types) ==
    IF p.panic # "" THEN [p |-> p, res |-> FALSE]
    ELSE IF parser_peek(p) = OutOfBounds
    THEN [p |-> Panicked(p, "index out of bounds"), res |-> FALSE]
    ELSE IF \E token_type \in types : check(p, token_type)
    THEN [p |-> parser_advance(p).p, res |-> TRUE]
    ELSE [p |-> p, res |-> FALSE]

consume(p, token_type, msg) ==
    IF p.panic # "" THEN None(p)
    ELSE IF parser_peek(p) = OutOfBounds
    THEN None(Panicked(p, "index out of bounds"))
    ELSE IF check(p, token_type)
    THEN Some(parser_advance(p).p, parser_advance(p).tok)
    ELSE None(eprintln(p, msg))

---------------------------------------------------------------------------
(* Expressions.                                                            *)

RECURSIVE Method(_, _), expression(_), or(_), and(_), bitwise_or(_),
          bitwise_xor(_),
          bitwise_and(_), equality(_), comparison(_), term(_), factor(_),
          power(_), unary(_), call(_), primary(_), parse_lambda_expr(_),
          LeftAssoc(_, _), LeftAssocLoop(_, _, _), Climb(_, _, _),
          CallLoop(_, _), ExpressionList(_, _), ParenLoop(_, _, _),
          DictLoop(_, _), LambdaParams(_, _)

(* The levels of the binary operators with a while loop, from or (1) to    *)
(* factor (9): the operators that the loop of the level matches.           *)
LevelOpsTermAndFactorSwapped(n) ==
    CASE n = 1 -> {"Or"}
      [] n = 2 -> {"And"}
      [] n = 3 -> {"Pipe"}
      [] n = 4 -> {"Caret"}
      [] n = 5 -> {"Ampersand"}
      [] n = 6 -> {"EqualEqual", "NotEqual"}
      [] n = 7 -> {"Less", "LessEqual", "Greater", "GreaterEqual", "Is"}
      [] n = 8 -> {"Star", "Slash", "Modulo"}
      [] n = 9 -> {"Plus", "Minus"}

LevelOps(n) ==
    CASE n = 1 -> {"Or"}
      [] n = 2 -> {"And"}
      [] n = 3 -> {"Pipe"}
      [] n = 4 -> {"Caret"}
      [] n = 5 -> {"Ampersand"}
      [] n = 6 -> {"EqualEqual", "NotEqual"}
      [] n = 7 -> {"Less", "LessEqual", "Greater", "GreaterEqual", "Is"}
      [] n = 8 -> {"Plus", "Minus"}
      [] n = 9 -> {"Star", "Slash", "Modulo"}

(* A production binds the result of the production it calls as the         *)
(* argument of a local operator, which is the rest of its body:            *)
(* `let expr = self.unary()?; rest` is Rest(unary(p)), where Rest(expr)    *)
(* returns None when expr is None.                                         *)

(* The productions or() ... factor() have one body, with the operators of  *)
(* their level n: `expr = operand()?; while matches(ops) { ... }`, where   *)
(* the operand of or() is an and(), the operand of and() a bitwise_or(),   *)
(* and so on, and the operand of factor() a power().  So the level n       *)
(* begins with a power() and then runs the while loops of the levels 9     *)
(* down to n, each on the expression that the level above has returned.    *)

(* Variant of the loop that parses the right operand at its own level and  *)
(* ends.                                                                   *)
LeftAssocLoopRight(p, n, expr) ==
    LET m == matches(p, LevelOps(n))
        Binary(right) ==
            IF ~right.some THEN None(right.p)
            ELSE Some(right.p,
                      ExprBinary(expr, peek_previous(m.p).token_type,
                                 right.val))
    IN  IF ~m.res THEN Some(m.p, expr) ELSE Binary(LeftAssoc(m.p, n))

(* `while self.matches(ops) { op; right = operand()?; expr = Binary }`     *)
LeftAssocLoop(p, n, expr) ==
    LET m == matches(p, LevelOps(n))
        Binary(right) ==
            IF ~right.some THEN None(right.p)
            ELSE LeftAssocLoop(right.p, n,
                     ExprBinary(expr, peek_previous(m.p).token_type,
                                right.val))
    IN  IF ~m.res THEN Some(m.p, expr) ELSE Binary(LeftAssoc(m.p, n + 1))

(* The levels n down to lowest on the Option that level n + 1 returned.    *)
Climb(expr, n, lowest) ==
    IF ~expr.some \/ n < lowest THEN expr
    ELSE Climb(LeftAssocLoop(expr.p, n, expr.val), n - 1, lowest)

(* The production of level n; the level 10 is power().                     *)
LeftAssoc(p, n) == Climb(Method("power", p), 9, n)

or(p) == Climb(Method("power", p), 9, 1)

and(p) == LeftAssoc(p, 2)

bitwise_or(p) == LeftAssoc(p, 3)

bitwise_xor(p) == LeftAssoc(p, 4)

bitwise_and(p) == LeftAssoc(p, 5)

equality(p) == LeftAssoc(p, 6)

comparison(p) == LeftAssoc(p, 7)

term(p) == LeftAssoc(p, 8)

factor(p) == LeftAssoc(p, 9)

expression(p) == or(p)

(* Variant of power whose right operand is a unary().                      *)
powerOnce(p) ==
    LET Rest(expr) ==
            LET m == matches(expr.p, {"StarStar"})
                Binary(right) ==
                    IF ~right.some THEN None(right.p)
                    ELSE Some(right.p,
                              ExprBinary(expr.val,
                                         peek_previous(m.p).token_type,
                                         right.val))
            IN  IF ~expr.some THEN None(expr.p)
                ELSE IF ~m.res THEN Some(m.p, expr.val)
                ELSE Binary(Method("unary", m.p))
    IN  Rest(Method("unary", p))

power(p) ==
    LET Rest(expr) ==
            LET m == matches(expr.p, {"StarStar"})
                Binary(right) ==
                    IF ~right.some THEN None(right.p)
                    ELSE Some(right.p,
                              ExprBinary(expr.val,
                                         peek_previous(m.p).token_type,
                                         right.val))
            IN  IF ~expr.some THEN None(expr.p)
                ELSE IF ~m.res THEN Some(m.p, expr.val)
                ELSE Binary(Method("power", m.p))
    IN  Rest(Method("unary", p))

unary(p) ==
    LET m == matches(p, {"Minus", "Not", "Tilde"})
        Unary(expr) ==
            IF ~expr.some THEN None(expr.p)
            ELSE Some(expr.p,
                      ExprUnary(peek_previous(m.p).token_type, expr.val))
    IN  IF ~m.res THEN Method("call", m.p) ELSE Unary(Method("unary", m.p))

(* `loop { push(expression()?); if !matches(Comma) { break } }`, which is  *)
(* also `[expression()?]` followed by                                      *)
(* `while matches(Comma) { push(expression()?) }`.                         *)
ExpressionList(p, exprs) ==
    LET Pushed(expr) ==
            LET m == matches(expr.p, {"Comma"})
            IN  IF ~expr.some THEN None(expr.p)
                ELSE IF m.res
                THEN ExpressionList(m.p, Append(exprs, expr.val))
                ELSE Some(m.p, Append(exprs, expr.val))
    IN  Pushed(Method("expression", p))

(* The parameters of a lambda, from the first Identifier token.            *)
LambdaParams(p, params) ==
    LET token == parser_advance(p)
        m == matches(token.p, {"Comma"})
    IN  IF token.tok.literal.kind # "Identifier"
        THEN None(eprintln(token.p, "Expected identifier in lambda parameters"))
        ELSE IF m.res
        THEN LambdaParams(m.p, Append(params, token.tok.literal.value))
        ELSE Some(m.p, Append(params, token.tok.literal.value))

parse_lambda_expr(p) ==
    LET Lambda(params, body) ==
            IF ~body.some THEN None(body.p)
            ELSE Some(body.p, ExprLambda(params, body.val))
        Rest(params) ==
            LET colon == consume(params.p, "Colon",
                                 "Expected ':' after lambda parameters")
            IN  IF ~params.some THEN None(params.p)
                ELSE IF ~colon.some THEN None(colon.p)
                ELSE Lambda(params.val, Method("expression", colon.p))
    IN  Rest(IF check(p, "Identifier") THEN LambdaParams(p, <<>>)
             ELSE Some(p, <<>>))

(* Variant of the loop of call() that ends after an index.                 *)
CallLoopIndexLast(p, expr) ==
    LET lparen == matches(p, {"LParen"})
        dot == matches(lparen.p, {"Dot"})
        name_token == consume(dot.p, "Identifier",
                              "Expected attribute name after '.'")
        lbracket == matches(dot.p, {"LBracket"})
        Call(args) ==
            IF ~args.some THEN None(args.p)
            ELSE CallLoop(consume(args.p, "RParen",
                                  "Expected ')' after arguments").p,
                          ExprCall(expr, args.val))
        Index(index) ==
            IF ~index.some THEN None(index.p)
            ELSE Some(consume(index.p, "RBracket",
                              "Expected ']' after index").p,
                      ExprIndex(expr, index.val))
    IN  IF lparen.res
        THEN Call(IF ~check(lparen.p, "RParen")
                  THEN ExpressionList(lparen.p, <<>>)
                  ELSE Some(lparen.p, <<>>))
        ELSE IF dot.res
        THEN IF ~name_token.some THEN None(name_token.p)
             ELSE IF name_token.val.literal.kind = "Identifier"
             THEN CallLoop(name_token.p,
                           ExprGet(expr, name_token.val.literal.value))
             ELSE None(eprintln(name_token.p,
                                "Expected identifier after '.'"))
        ELSE IF lbracket.res THEN Index(Method("expression", lbracket.p))
        ELSE Some(lbracket.p, expr)

(* The loop of call(): the calls, attributes and indexes after a primary.  *)
CallLoop(p, expr) ==
    LET lparen == matches(p, {"LParen"})
        dot == matches(lparen.p, {"Dot"})
        name_token == consume(dot.p, "Identifier",
                              "Expected attribute name after '.'")
        lbracket == matches(dot.p, {"LBracket"})
        Call(args) ==
            IF ~args.some THEN None(args.p)
            ELSE CallLoop(consume(args.p, "RParen",
                                  "Expected ')' after arguments").p,
                          ExprCall(expr, args.val))
        Index(index) ==
            IF ~index.some THEN None(index.p)
            ELSE CallLoop(consume(index.p, "RBracket",
                                  "Expected ']' after index").p,
                          ExprIndex(expr, index.val))
    IN  IF lparen.res
        THEN Call(IF ~check(lparen.p, "RParen")
                  THEN ExpressionList(lparen.p, <<>>)
                  ELSE Some(lparen.p, <<>>))
        ELSE IF dot.res
        THEN IF ~name_token.some THEN None(name_token.p)
             ELSE IF name_token.val.literal.kind = "Identifier"
             THEN CallLoop(name_token.p,
                           ExprGet(expr, name_token.val.literal.value))
             ELSE None(eprintln(name_token.p,
                                "Expected identifier after '.'"))
        ELSE IF lbracket.res THEN Index(Method("expression", lbracket.p))
        ELSE Some(lbracket.p, expr)

call(p) ==
    LET Loop(expr) ==
            IF ~expr.some THEN None(expr.p) ELSE CallLoop(expr.p, expr.val)
    IN  Loop(Method("primary", p))

(* The while loop of the parenthesized form of primary().                  *)
ParenLoop(p, exprs, has_comma) ==
    LET m == matches(p, {"Comma"})
        Pushed(expr) ==
            IF ~expr.some
            THEN [p |-> expr.p, some |-> FALSE, val |-> exprs,
                  has_comma |-> TRUE]
            ELSE ParenLoop(expr.p, Append(exprs, expr.val), TRUE)
    IN  IF ~m.res
        THEN [p |-> m.p, some |-> TRUE, val |-> exprs,
              has_comma |-> has_comma]
        ELSE IF check(m.p, "RParen")
        THEN [p |-> m.p, some |-> TRUE, val |-> exprs, has_comma |-> TRUE]
        ELSE Pushed(Method("expression", m.p))

(* The loop of the dict form of primary().                                 *)
DictLoop(p, pairs) ==
    LET Pushed(key, value) ==
            LET m == matches(value.p, {"Comma"})
            IN  IF ~value.some THEN None(value.p)
                ELSE IF m.res
                THEN DictLoop(m.p, Append(pairs, <<key, value.val>>))
                ELSE Some(m.p, Append(pairs, <<key, value.val>>))
        Rest(key) ==
            IF ~key.some THEN None(key.p)
            ELSE Pushed(key.val,
                        Method("expression", 
                            consume(key.p, "Colon",
                                    "Expected ':' between key and value in dict").p))
    IN  Rest(Method("expression", p))

(* Variant of the parenthesized form that forgets the trailing comma.      *)
ParenthesizedIgnoringComma(p) ==
    LET Closed(rest) ==
            LET closed == consume(rest.p, "RParen",
                                  "Expected ')' after expression")
            IN  IF ~rest.some THEN None(rest.p)
                ELSE IF Len(rest.val) > 1
                THEN Some(closed.p, ExprTuple(rest.val))
                ELSE Some(closed.p, ExprGrouping(rest.val[1]))
        Rest(first) ==
            IF ~first.some THEN None(first.p)
            ELSE Closed(ParenLoop(first.p, <<first.val>>, FALSE))
    IN  IF check(p, "RParen")
        THEN Some(parser_advance(p).p, ExprTuple(<<>>))
        ELSE Rest(Method("expression", p))

(* primary() after `matches(LParen)`.                                      *)
Parenthesized(p) ==
    LET Closed(rest) ==
            LET closed == consume(rest.p, "RParen",
                                  "Expected ')' after expression")
            IN  IF ~rest.some THEN None(rest.p)
                ELSE IF rest.has_comma \/ Len(rest.val) > 1
                THEN Some(closed.p, ExprTuple(rest.val))
                ELSE Some(closed.p, ExprGrouping(rest.val[1]))
        Rest(first) ==
            IF ~first.some THEN None(first.p)
            ELSE Closed(ParenLoop(first.p, <<first.val>>, FALSE))
    IN  IF check(p, "RParen")
        THEN Some(parser_advance(p).p, ExprTuple(<<>>))
        ELSE Rest(Method("expression", p))

(* primary() after `matches(LBracket)`.                                    *)
ListLiteral(p) ==
    LET Closed(elements) ==
            IF ~elements.some THEN None(elements.p)
            ELSE Some(consume(elements.p, "RBracket",
                              "Expected ']' after list literal").p,
                      ExprList(elements.val))
    IN  Closed(IF ~check(p, "RBracket") THEN ExpressionList(p, <<>>)
               ELSE Some(p, <<>>))

(* primary() after `matches(LBrace)`.                                      *)
DictLiteral(p) ==
    LET Closed(pairs) ==
            IF ~pairs.some THEN None(pairs.p)
            ELSE Some(consume(pairs.p, "RBrace",
                              "Expected '}' after dict literal").p,
                      ExprDict(pairs.val))
    IN  Closed(IF ~check(p, "RBrace") THEN DictLoop(p, <<>>)
               ELSE Some(p, <<>>))

(* A token of a literal kind without the literal of that kind falls        *)
(* through to the next test of primary().                                  *)
primary(p) ==
    LET int == matches(p, {"Int"})
        float == matches(int.p, {"Float"})
        string == matches(float.p, {"String"})
        identifier == matches(string.p, {"Identifier"})
        lparen == matches(identifier.p, {"LParen"})
        lbracket == matches(lparen.p, {"LBracket"})
        lbrace == matches(lbracket.p, {"LBrace"})
        lambda == matches(lbrace.p, {"Lambda"})
        Has(m, kind) == m.res /\ peek_previous(m.p).literal.kind = kind
    IN  IF Has(int, "Int")
        THEN Some(int.p, ExprLiteral(peek_previous(int.p).literal))
        ELSE IF Has(float, "Float")
        THEN Some(float.p, ExprLiteral(peek_previous(float.p).literal))
        ELSE IF Has(string, "String")
        THEN Some(string.p, ExprLiteral(peek_previous(string.p).literal))
        ELSE IF Has(identifier, "Identifier")
        THEN Some(identifier.p,
                  ExprVariable(peek_previous(identifier.p).literal.value))
        ELSE IF lparen.res THEN Method("Parenthesized", lparen.p)
        ELSE IF lbracket.res THEN Method("ListLiteral", lbracket.p)
        ELSE IF lbrace.res THEN Method("DictLiteral", lbrace.p)
        ELSE IF lambda.res THEN Method("parse_lambda_expr", lambda.p)
        ELSE None(lambda.p)

---------------------------------------------------------------------------
(* Statements.  An Option inside a node is a sequence of zero or one       *)
(* element.                                                                *)

StmtFunctionDef(name, params, body) ==
    [node |-> "FunctionDef", name |-> name, params |-> params, body |-> body]

StmtClassDef(name, base, body) ==
    [node |-> "ClassDef", name |-> name, base |-> base, body |-> body]

StmtReturn(expr) == [node |-> "Return", expr |-> expr]

StmtExpression(expr) == [node |-> "Expression", expr |-> expr]

StmtIf(condition, then_branch, else_branch) ==
    [node |-> "If", condition |-> condition, then_branch |-> then_branch,
     else_branch |-> else_branch]

StmtWhile(condition, body) ==
    [node |-> "While", condition |-> condition, body |-> body]

StmtPrint(expr) == [node |-> "Print", expr |-> expr]

StmtAssign(target, value) ==
    [node |-> "Assign", target |-> target, value |-> value]

StmtFor(target, iterable, body) ==
    [node |-> "For", target |-> target, iterable |-> iterable, body |-> body]

StmtImport(modules) == [node |-> "Import", modules |-> modules]

StmtFromImport(module, names) ==
    [node |-> "FromImport", module |-> module, names |-> names]

StmtGlobal(names) == [node |-> "Global", names |-> names]

StmtTry(body, except_clauses) ==
    [node |-> "Try", body |-> body, except_clauses |-> except_clauses]

StmtRaise(exception) == [node |-> "Raise", exception |-> exception]

StmtDel(target) == [node |-> "Del", target |-> target]

StmtPass == [node |-> "Pass"]

StmtBreak == [node |-> "Break"]

StmtContinue == [node |-> "Continue"]

RECURSIVE declaration(_), statement(_), Block(_, _), try_statement(_),
          ExceptClauses(_, _), if_statement(_), for_statement(_),
          while_statement(_), function_declaration(_), class_declaration(_),
          expr_to_target(_, _), ExprsToTargets(_, _, _),
          parse_single_target(_), SingleTargets(_, _), NameList(_, _, _),
          ParamList(_, _, _)

(* `exprs.into_iter().map(expr_to_target).collect::<Option<Vec<_>>>()`:    *)
(* the targets in order, up to the first expression that is no target.     *)
ExprsToTargets(p, exprs, targets) ==
    LET Pushed(target) ==
            IF ~target.some THEN None(target.p)
            ELSE ExprsToTargets(target.p, Tail(exprs),
                                Append(targets, target.val))
    IN  IF exprs = <<>> THEN Some(p, targets)
        ELSE Pushed(expr_to_target(p, Head(exprs)))

(* Variant of expr_to_target that takes any other expression for a name.   *)
expr_to_targetLenient(p, expr) ==
    LET Tuple(targets) ==
            IF ~targets.some THEN None(targets.p)
            ELSE Some(targets.p, TargetTuple(targets.val))
    IN  CASE expr.node = "Variable" -> Some(p, TargetName(expr.name))
          [] expr.node = "Get" ->
                Some(p, TargetAttribute(expr.object, expr.name))
          [] expr.node = "Tuple" -> Tuple(ExprsToTargets(p, expr.exprs, <<>>))
          [] OTHER -> Some(p, TargetName(<<>>))

expr_to_target(p, expr) ==
    LET Tuple(targets) ==
            IF ~targets.some THEN None(targets.p)
            ELSE Some(targets.p, TargetTuple(targets.val))
    IN  CASE expr.node = "Variable" -> Some(p, TargetName(expr.name))
          [] expr.node = "Get" ->
                Some(p, TargetAttribute(expr.object, expr.name))
          [] expr.node = "Tuple" -> Tuple(ExprsToTargets(p, expr.exprs, <<>>))
          [] OTHER -> None(eprintln(p, "Invalid assignment target"))

tuple_or_expression(p) ==
    LET Unwrapped(exprs) ==
            IF ~exprs.some THEN None(exprs.p)
            ELSE IF Len(exprs.val) = 1 THEN Some(exprs.p, exprs.val[1])
            ELSE Some(exprs.p, ExprTuple(exprs.val))
    IN  Unwrapped(ExpressionList(p, <<>>))

(* Variant of assignment_or_expression that wraps a single expression in a  *)
(* Tuple too.                                                               *)
assignment_or_expressionTupling(p) ==
    LET Assign(targets, value) ==
            IF ~value.some THEN None(value.p)
            ELSE Some(consume(value.p, "Newline",
                              "Expected newline after assignment").p,
                      StmtAssign(IF Len(targets) = 1 THEN targets[1]
                                 ELSE TargetTuple(targets),
                                 value.val))
        Rest(exprs) ==
            LET equal == matches(exprs.p, {"Equal"})
                targets == ExprsToTargets(equal.p, exprs.val, <<>>)
            IN  IF ~exprs.some THEN None(exprs.p)
                ELSE IF equal.res
                THEN IF ~targets.some THEN None(targets.p)
                     ELSE Assign(targets.val,
                                 Method("tuple_or_expression", targets.p))
                ELSE Some(consume(equal.p, "Newline",
                                  "Expected newline after expression").p,
                          StmtExpression(ExprTuple(exprs.val)))
    IN  Rest(ExpressionList(p, <<>>))

(* Variant of assignment_or_expression that wraps a single target too.     *)
assignment_or_expressionWrapping(p) ==
    LET Assign(targets, value) ==
            IF ~value.some THEN None(value.p)
            ELSE Some(consume(value.p, "Newline",
                              "Expected newline after assignment").p,
                      StmtAssign(TargetTuple(targets), value.val))
        Rest(exprs) ==
            LET equal == matches(exprs.p, {"Equal"})
                targets == ExprsToTargets(equal.p, exprs.val, <<>>)
                expr == IF Len(exprs.val) = 1 THEN exprs.val[1]
                        ELSE ExprTuple(exprs.val)
            IN  IF ~exprs.some THEN None(exprs.p)
                ELSE IF equal.res
                THEN IF ~targets.some THEN None(targets.p)
                     ELSE Assign(targets.val,
                                 Method("tuple_or_expression", targets.p))
                ELSE Some(consume(equal.p, "Newline",
                                  "Expected newline after expression").p,
                          StmtExpression(expr))
    IN  Rest(ExpressionList(p, <<>>))

assignment_or_expression(p) ==
    LET Assign(targets, value) ==
            IF ~value.some THEN None(value.p)
            ELSE Some(consume(value.p, "Newline",
                              "Expected newline after assignment").p,
                      StmtAssign(IF Len(targets) = 1 THEN targets[1]
                                 ELSE TargetTuple(targets),
                                 value.val))
        Rest(exprs) ==
            LET equal == matches(exprs.p, {"Equal"})
                targets == ExprsToTargets(equal.p, exprs.val, <<>>)
                expr == IF Len(exprs.val) = 1 THEN exprs.val[1]
                        ELSE ExprTuple(exprs.val)
            IN  IF ~exprs.some THEN None(exprs.p)
                ELSE IF equal.res
                THEN IF ~targets.some THEN None(targets.p)
                     ELSE Assign(targets.val,
                                 Method("tuple_or_expression", targets.p))
                ELSE Some(consume(equal.p, "Newline",
                                  "Expected newline after expression").p,
                          StmtExpression(expr))
    IN  Rest(ExpressionList(p, <<>>))

(* `loop { t = consume(Identifier, msg)?; push the name of t;              *)
(*         if !matches(Comma) { break } }`                                 *)
NameList(p, names, msg) ==
    LET name_token == consume(p, "Identifier", msg)
        pushed == IF name_token.val.literal.kind = "Identifier"
                  THEN Append(names, name_token.val.literal.value)
                  ELSE names
        m == matches(name_token.p, {"Comma"})
    IN  IF ~name_token.some THEN None(name_token.p)
        ELSE IF m.res THEN NameList(m.p, pushed, msg)
        ELSE Some(m.p, pushed)

(* `loop { t = advance(); push the name of t or report msg and return;     *)
(*         if !matches(Comma) { break } }`                                 *)
ParamList(p, params, msg) ==
    LET token == parser_advance(p)
        m == matches(token.p, {"Comma"})
    IN  IF token.tok.literal.kind # "Identifier"
        THEN None(eprintln(token.p, msg))
        ELSE IF m.res
        THEN ParamList(m.p, Append(params, token.tok.literal.value), msg)
        ELSE Some(m.p, Append(params, token.tok.literal.value))

(* Variant of the block loop that ends at a declaration that returns       *)
(* nothing and keeps the statements it has.                                *)
BlockPartial(p, body) ==
    LET Pushed(stmt) ==
            IF ~stmt.some THEN Some(stmt.p, body)
            ELSE Block(stmt.p, Append(body, stmt.val))
    IN  IF check(p, "Dedent") \/ is_at_end(p) THEN Some(p, body)
        ELSE Pushed(Method("declaration", p))

(* `while !check(Dedent) && !is_at_end() { body.push(declaration()?) }`    *)
Block(p, body) ==
    LET Pushed(stmt) ==
            IF ~stmt.some THEN None(stmt.p)
            ELSE Block(stmt.p, Append(body, stmt.val))
    IN  IF check(p, "Dedent") \/ is_at_end(p) THEN Some(p, body)
        ELSE Pushed(Method("declaration", p))

(* The while loop of try_statement() over the except clauses.              *)
ExceptClauses(p, except_clauses) ==
    LET except == matches(p, {"Except"})
        typed == check(except.p, "Identifier")
        Clause(exception_type, except_body) ==
            LET dedent == consume(except_body.p, "Dedent",
                                  "Expected dedent after except block")
            IN  IF ~except_body.some THEN None(except_body.p)
                ELSE IF ~dedent.some THEN None(dedent.p)
                ELSE ExceptClauses(dedent.p,
                         Append(except_clauses,
                                <<exception_type, except_body.val>>))
        Rest(exception_type) ==
            LET colon == consume(exception_type.p, "Colon",
                                 "Expected ':' after except")
                newline == consume(colon.p, "Newline",
                                   "Expected newline after except ':')")
                indent == consume(newline.p, "Indent",
                                  "Expected indent after except")
            IN  IF typed /\ ~exception_type.some
                THEN None(exception_type.p)
                ELSE IF ~colon.some THEN None(colon.p)
                ELSE IF ~newline.some THEN None(newline.p)
                ELSE IF ~indent.some THEN None(indent.p)
                ELSE Clause(IF typed THEN <<exception_type.val>> ELSE <<>>,
                            Block(indent.p, <<>>))
    IN  IF ~except.res THEN Some(except.p, except_clauses)
        ELSE Rest(IF typed THEN Method("expression", except.p)
                  ELSE None(except.p))

try_statement(p) ==
    LET colon == consume(p, "Colon", "Expected ':' after try")
        newline == consume(colon.p, "Newline",
                           "Expected newline after try ':')")
        indent == consume(newline.p, "Indent", "Expected indent after try")
        Try(try_body, except_clauses) ==
            IF ~except_clauses.some THEN None(except_clauses.p)
            ELSE Some(except_clauses.p,
                      StmtTry(try_body, except_clauses.val))
        Rest(try_body) ==
            LET dedent == consume(try_body.p, "Dedent",
                                  "Expected dedent after try block")
            IN  IF ~try_body.some THEN None(try_body.p)
                ELSE IF ~dedent.some THEN None(dedent.p)
                ELSE Try(try_body.val, ExceptClauses(dedent.p, <<>>))
    IN  IF ~colon.some THEN None(colon.p)
        ELSE IF ~newline.some THEN None(newline.p)
        ELSE IF ~indent.some THEN None(indent.p)
        ELSE Rest(Block(indent.p, <<>>))

(* Variant of if_statement that takes the body of an elif for the else     *)
(* block.                                                                   *)
if_statementFlat(p) ==
    LET Elif(condition, then_branch, elif_stmt) ==
            IF ~elif_stmt.some THEN None(elif_stmt.p)
            ELSE Some(elif_stmt.p,
                      StmtIf(condition, then_branch,
                             <<elif_stmt.val.then_branch>>))
        Else(condition, then_branch, else_block) ==
            IF ~else_block.some THEN None(else_block.p)
            ELSE Some(consume(else_block.p, "Dedent",
                              "Expected dedent after else block").p,
                      StmtIf(condition, then_branch, <<else_block.val>>))
        Then(condition, then_branch) ==
            LET dedent == consume(then_branch.p, "Dedent",
                                  "Expected dedent after if block")
                elif == matches(dedent.p, {"Elif"})
                else == matches(elif.p, {"Else"})
                else_colon == consume(else.p, "Colon",
                                      "Expected ':' after else")
                else_newline == consume(else_colon.p, "Newline",
                                        "Expected newline after else ':'")
                else_indent == consume(else_newline.p, "Indent",
                                       "Expected indent after else statement")
            IN  IF ~then_branch.some THEN None(then_branch.p)
                ELSE IF elif.res
                THEN Elif(condition, then_branch.val,
                          Method("if_statement", elif.p))
                ELSE IF else.res
                THEN Else(condition, then_branch.val,
                          Block(else_indent.p, <<>>))
                ELSE Some(else.p, StmtIf(condition, then_branch.val, <<>>))
        Rest(condition) ==
            LET colon == consume(condition.p, "Colon",
                                 "Expected ':' after if condition")
                newline == consume(colon.p, "Newline",
                                   "Expected newline after ':'")
                indent == consume(newline.p, "Indent",
                                  "Expected indent after if statement")
            IN  IF ~condition.some THEN None(condition.p)
                ELSE Then(condition.val, Block(indent.p, <<>>))
    IN  Rest(Method("expression", p))

if_statement(p) ==
    LET Elif(condition, then_branch, elif_stmt) ==
            IF ~elif_stmt.some THEN None(elif_stmt.p)
            ELSE Some(elif_stmt.p,
                      StmtIf(condition, then_branch,
                             << <<elif_stmt.val>> >>))
        Else(condition, then_branch, else_block) ==
            IF ~else_block.some THEN None(else_block.p)
            ELSE Some(consume(else_block.p, "Dedent",
                              "Expected dedent after else block").p,
                      StmtIf(condition, then_branch, <<else_block.val>>))
        Then(condition, then_branch) ==
            LET dedent == consume(then_branch.p, "Dedent",
                                  "Expected dedent after if block")
                elif == matches(dedent.p, {"Elif"})
                else == matches(elif.p, {"Else"})
                else_colon == consume(else.p, "Colon",
                                      "Expected ':' after else")
                else_newline == consume(else_colon.p, "Newline",
                                        "Expected newline after else ':'")
                else_indent == consume(else_newline.p, "Indent",
                                       "Expected indent after else statement")
            IN  IF ~then_branch.some THEN None(then_branch.p)
                ELSE IF elif.res
                THEN Elif(condition, then_branch.val,
                          Method("if_statement", elif.p))
                ELSE IF else.res
                THEN Else(condition, then_branch.val,
                          Block(else_indent.p, <<>>))
                ELSE Some(else.p, StmtIf(condition, then_branch.val, <<>>))
        Rest(condition) ==
            LET colon == consume(condition.p, "Colon",
                                 "Expected ':' after if condition")
                newline == consume(colon.p, "Newline",
                                   "Expected newline after ':'")
                indent == consume(newline.p, "Indent",
                                  "Expected indent after if statement")
            IN  IF ~condition.some THEN None(condition.p)
                ELSE Then(condition.val, Block(indent.p, <<>>))
    IN  Rest(Method("expression", p))

(* `loop { push(parse_single_target()?); if !matches(Comma) { break } }`,  *)
(* which is also the first target followed by the while loop of            *)
(* parse_target_list().                                                    *)
SingleTargets(p, targets) ==
    LET Pushed(target) ==
            LET m == matches(target.p, {"Comma"})
            IN  IF ~target.some THEN None(target.p)
                ELSE IF m.res
                THEN SingleTargets(m.p, Append(targets, target.val))
                ELSE Some(m.p, Append(targets, target.val))
    IN  Pushed(Method("parse_single_target", p))

parse_single_target(p) ==
    LET lparen == matches(p, {"LParen"})
        identifier == matches(lparen.p, {"Identifier"})
        name == peek_previous(identifier.p).literal
        dot == matches(identifier.p, {"Dot"})
        attr_token == consume(dot.p, "Identifier", "Expected attribute name")
        Tuple(elements) ==
            IF ~elements.some THEN None(elements.p)
            ELSE Some(consume(elements.p, "RParen",
                              "Expected ')' after tuple pattern").p,
                      TargetTuple(elements.val))
    IN  IF lparen.res
        THEN Tuple(IF ~check(lparen.p, "RParen")
                   THEN SingleTargets(lparen.p, <<>>)
                   ELSE Some(lparen.p, <<>>))
        ELSE IF identifier.res
        THEN IF name.kind # "Identifier"
             THEN None(eprintln(identifier.p, "Invalid identifier in target"))
             ELSE IF dot.res
             THEN IF ~attr_token.some THEN None(attr_token.p)
                  ELSE IF attr_token.val.literal.kind = "Identifier"
                  THEN Some(attr_token.p,
                            TargetAttribute(ExprVariable(name.value),
                                            attr_token.val.literal.value))
                  ELSE Some(attr_token.p, TargetName(name.value))
             ELSE Some(dot.p, TargetName(name.value))
        ELSE None(eprintln(identifier.p,
                           "Expected name or tuple in for loop target"))

(* Variant of parse_target_list that wraps a single target in a Tuple too.  *)
parse_target_listWrapping(p) ==
    LET Unwrapped(targets) ==
            IF ~targets.some THEN None(targets.p)
            ELSE Some(targets.p, TargetTuple(targets.val))
    IN  Unwrapped(SingleTargets(p, <<>>))

parse_target_list(p) ==
    LET Unwrapped(targets) ==
            IF ~targets.some THEN None(targets.p)
            ELSE IF Len(targets.val) = 1 THEN Some(targets.p, targets.val[1])
            ELSE Some(targets.p, TargetTuple(targets.val))
    IN  Unwrapped(SingleTargets(p, <<>>))

for_statement(p) ==
    LET For(target, iterable, body) ==
            IF ~body.some THEN None(body.p)
            ELSE Some(consume(body.p, "Dedent",
                              "Expected dedent after for block").p,
                      StmtFor(target, iterable, body.val))
        Iterable(target, iterable) ==
            LET colon == consume(iterable.p, "Colon",
                                 "Expected ':' after iterable")
                newline == consume(colon.p, "Newline",
                                   "Expected newline after ':'")
                indent == consume(newline.p, "Indent",
                                  "Expected indent after for loop")
            IN  IF ~iterable.some THEN None(iterable.p)
                ELSE For(target, iterable.val, Block(indent.p, <<>>))
        Rest(target) ==
            IF ~target.some THEN None(target.p)
            ELSE Iterable(target.val,
                          Method("expression", 
                              consume(target.p, "In",
                                      "Expected 'in' after loop variable").p))
    IN  Rest(Method("parse_target_list", p))

while_statement(p) ==
    LET While(condition, body) ==
            IF ~body.some THEN None(body.p)
            ELSE Some(consume(body.p, "Dedent",
                              "Expected dedent after while block").p,
                      StmtWhile(condition, body.val))
        Rest(condition) ==
            LET colon == consume(condition.p, "Colon",
                                 "Expected ':' after while condition")
                newline == consume(colon.p, "Newline",
                                   "Expected newline after ':'")
                indent == consume(newline.p, "Indent",
                                  "Expected indent after while")
            IN  IF ~condition.some THEN None(condition.p)
                ELSE While(condition.val, Block(indent.p, <<>>))
    IN  Rest(Method("expression", p))

function_declaration(p) ==
    LET token == parser_advance(p)
        name == token.tok.literal
        lparen == consume(token.p, "LParen",
                          "Expected '(' after function name")
        params == IF ~check(lparen.p, "RParen")
                  THEN ParamList(lparen.p, <<>>, "Expected parameter name")
                  ELSE Some(lparen.p, <<>>)
        rparen == consume(params.p, "RParen",
                          "Expected ')' after parameters")
        colon == consume(rparen.p, "Colon",
                         "Expected ':' after function header")
        newline == consume(colon.p, "Newline", "Expected newline after ':'")
        indent == consume(newline.p, "Indent",
                          "Expected indent before function body")
        Def(body) ==
            IF ~body.some THEN None(body.p)
            ELSE Some(consume(body.p, "Dedent",
                              "Expected dedent after function body").p,
                      StmtFunctionDef(name.value, params.val, body.val))
    IN  IF name.kind # "Identifier"
        THEN None(eprintln(token.p, "Expected function name after 'def'"))
        ELSE IF ~params.some THEN None(params.p)
        ELSE Def(Block(indent.p, <<>>))

class_declaration(p) ==
    LET token == parser_advance(p)
        name == token.tok.literal
        lparen == matches(token.p, {"LParen"})
        Class(base, body) ==
            LET dedent == consume(body.p, "Dedent",
                                  "Expected dedent after class body")
            IN  IF ~body.some THEN None(body.p)
                ELSE IF ~dedent.some THEN None(dedent.p)
                ELSE Some(dedent.p, StmtClassDef(name.value, base, body.val))
        Header(header, base) ==
            LET colon == consume(header, "Colon",
                                 "Expected ':' after class header")
                newline == consume(colon.p, "Newline",
                                   "Expected newline after ':'")
                indent == consume(newline.p, "Indent",
                                  "Expected indent after class header")
            IN  IF ~colon.some THEN None(colon.p)
                ELSE IF ~newline.some THEN None(newline.p)
                ELSE IF ~indent.some THEN None(indent.p)
                ELSE Class(base, Block(indent.p, <<>>))
        Base(expr) ==
            LET rparen == consume(expr.p, "RParen",
                                  "Expected ')' after base class")
            IN  IF ~expr.some THEN None(expr.p)
                ELSE IF ~rparen.some THEN None(rparen.p)
                ELSE Header(rparen.p, <<expr.val>>)
    IN  IF name.kind # "Identifier"
        THEN None(eprintln(token.p, "Expected class name after 'class'"))
        ELSE IF lparen.res THEN Base(Method("expression", lparen.p))
        ELSE Header(lparen.p, <<>>)

import_statement(p) ==
    LET modules == NameList(p, <<>>, "Expected module name")
    IN  IF ~modules.some THEN None(modules.p)
        ELSE Some(consume(modules.p, "Newline",
                          "Expected newline after import").p,
                  StmtImport(modules.val))

import_from_statement(p) ==
    LET module_token == consume(p, "Identifier", "Expected module name")
        import == consume(module_token.p, "Import",
                          "Expected 'import' after module name")
        names == NameList(import.p, <<>>, "Expected import name")
    IN  IF ~module_token.some THEN None(module_token.p)
        ELSE IF module_token.val.literal.kind # "Identifier"
        THEN None(module_token.p)
        ELSE IF ~import.some THEN None(import.p)
        ELSE IF ~names.some THEN None(names.p)
        ELSE Some(consume(names.p, "Newline",
                          "Expected newline after from import").p,
                  StmtFromImport(module_token.val.literal.value, names.val))

(* The statements that begin with a keyword; a token has one kind, so one  *)
(* matches() over the keywords finds the test of statement() that holds.   *)
StatementKeywords ==
    {"Del", "Raise", "Try", "Return", "Print", "Pass", "Break", "Continue",
     "For", "If", "While", "Global"}

statement(p) ==
    LET m == matches(p, StatementKeywords)
        keyword == peek_previous(m.p).token_type
        names == NameList(m.p, <<>>, "Expected variable name")
        Deleted(target) ==
            IF ~target.some THEN None(target.p)
            ELSE Some(consume(target.p, "Newline",
                              "Expected newline after del").p,
                      StmtDel(target.val))
        Raised(expr) ==
            IF ~expr.some THEN None(expr.p)
            ELSE Some(consume(expr.p, "Newline",
                              "Expected newline after raise").p,
                      StmtRaise(<<expr.val>>))
        Returned(expr) ==
            IF ~expr.some THEN None(expr.p)
            ELSE Some(consume(expr.p, "Newline",
                              "Expected newline after return").p,
                      StmtReturn(<<expr.val>>))
        Printed(expr) ==
            IF ~expr.some THEN None(expr.p)
            ELSE Some(consume(expr.p, "Newline",
                              "Expected newline after print").p,
                      StmtPrint(expr.val))
    IN  IF ~m.res THEN Method("assignment_or_expression", m.p)
        ELSE CASE keyword = "Del" -> Deleted(Method("parse_target_list", m.p))
               [] keyword = "Raise" ->
                    IF check(m.p, "Newline")
                    THEN Some(consume(m.p, "Newline",
                                      "Expected newline after raise").p,
                              StmtRaise(<<>>))
                    ELSE Raised(Method("expression", m.p))
               [] keyword = "Try" -> Method("try_statement", m.p)
               [] keyword = "Return" ->
                    IF check(m.p, "Newline")
                    THEN Some(consume(m.p, "Newline",
                                      "Expected newline after return").p,
                              StmtReturn(<<>>))
                    ELSE Returned(Method("expression", m.p))
               [] keyword = "Print" -> Printed(Method("expression", m.p))
               [] keyword = "Pass" ->
                    Some(consume(m.p, "Newline",
                                 "Expected newline after pass").p, StmtPass)
               [] keyword = "Break" ->
                    Some(consume(m.p, "Newline",
                                 "Expected newline after break").p, StmtBreak)
               [] keyword = "Continue" ->
                    Some(consume(m.p, "Newline",
                                 "Expected newline after continue").p,
                         StmtContinue)
               [] keyword = "For" -> Method("for_statement", m.p)
               [] keyword = "If" -> Method("if_statement", m.p)
               [] keyword = "While" -> Method("while_statement", m.p)
               [] keyword = "Global" ->
                    IF ~names.some THEN None(names.p)
                    ELSE Some(consume(names.p, "Newline",
                                      "Expected newline after global").p,
                              StmtGlobal(names.val))

declaration(p) ==
    LET m == matches(p, {"Def", "Class", "Import", "From"})
        keyword == peek_previous(m.p).token_type
    IN  IF ~m.res THEN Method("statement", m.p)
        ELSE CASE keyword = "Def" -> Method("function_declaration", m.p)
               [] keyword = "Class" -> Method("class_declaration", m.p)
               [] keyword = "Import" -> Method("import_statement", m.p)
               [] keyword = "From" -> Method("import_from_statement", m.p)

(* `self.<method>()`: the call of the method of the parser that is named. *)
(* The productions call each other through it.                            *)
Method(method, p) ==
    CASE method = "expression" -> expression(p)
      [] method = "power" -> power(p)
      [] method = "unary" -> unary(p)
      [] method = "call" -> call(p)
      [] method = "primary" -> primary(p)
      [] method = "parse_lambda_expr" -> parse_lambda_expr(p)
      [] method = "Parenthesized" -> Parenthesized(p)
      [] method = "ListLiteral" -> ListLiteral(p)
      [] method = "DictLiteral" -> DictLiteral(p)
      [] method = "declaration" -> declaration(p)
      [] method = "statement" -> statement(p)
      [] method = "assignment_or_expression" -> assignment_or_expression(p)
      [] method = "tuple_or_expression" -> tuple_or_expression(p)
      [] method = "try_statement" -> try_statement(p)
      [] method = "if_statement" -> if_statement(p)
      [] method = "for_statement" -> for_statement(p)
      [] method = "while_statement" -> while_statement(p)
      [] method = "function_declaration" -> function_declaration(p)
      [] method = "class_declaration" -> class_declaration(p)
      [] method = "import_statement" -> import_statement(p)
      [] method = "import_from_statement" -> import_from_statement(p)
      [] method = "parse_single_target" -> parse_single_target(p)
      [] method = "parse_target_list" -> parse_target_list(p)

---------------------------------------------------------------------------
(* The checked token sequences; each ends with Eof.                        *)

Tk(token_type) == Token(token_type, NoLiteral, <<0, 0>>)

Id(name) == Token("Identifier", Literal("Identifier", <<name>>), <<0, 0>>)

Num(digits) == Token("Int", Literal("Int", <<digits>>), <<0, 0>>)

Kw(kinds) == [i \in 1..Len(kinds) |-> Tk(kinds[i])]

RECURSIVE Flatten(_)
Flatten(ss) == IF ss = <<>> THEN <<>> ELSE Head(ss) \o Flatten(Tail(ss))

(* The elements of es with the separator sep between them.                 *)
RECURSIVE Separated(_, _)
Separated(es, sep) ==
    IF Len(es) <= 1 THEN Flatten(es)
    ELSE Head(es) \o <<sep>> \o Separated(Tail(es), sep)

(* First, every sequence of at most MaxTokens tokens over these.           *)
TokenAlphabet ==
    {Id("a"), Num("1"), Tk("LParen"), Tk("RParen"), Tk("Comma"),
     Tk("Equal"), Tk("Newline"), Tk("Indent"), Tk("Dedent"), Tk("Colon"),
     Tk("Def"), Tk("If")}

BoundedTokens == UNION {[1..n -> TokenAlphabet] : n \in 0..MaxTokens}

(* Second, the expression statements of one to MaxOperators binary         *)
(* operators between the operands a, b, c, ...                             *)
BinaryOperators ==
    {"Or", "And", "Pipe", "Caret", "Ampersand", "EqualEqual", "NotEqual",
     "Less", "LessEqual", "Greater", "GreaterEqual", "Is", "Plus", "Minus",
     "Star", "Slash", "Modulo", "StarStar"}

OperandNames == <<"a", "b", "c", "d", "e", "f">>

RECURSIVE Chain(_)
Chain(ops) ==
    IF ops = <<>> THEN <<Id(OperandNames[1])>>
    ELSE Chain(SubSeq(ops, 1, Len(ops) - 1))
           \o <<Tk(ops[Len(ops)]), Id(OperandNames[Len(ops) + 1])>>

(* With them, the expression `2 + 3 * 4 ** 2` of test_binary_expressions.   *)
OperatorChains ==
    {Chain(ops) \o <<Tk("Newline")>> :
        ops \in UNION {[1..n -> BinaryOperators] : n \in 1..MaxOperators}}
      \cup {<<Num("2"), Tk("Plus"), Num("3"), Tk("Star"), Num("4"),
              Tk("StarStar"), Num("2"), Tk("Newline")>>}

(* Third, the parenthesized forms of zero to MaxElements elements, with    *)
(* and without a comma after the last element.                             *)
Elements == {<<Id("a")>>, <<Num("1")>>}

ElementLists(choices, lo) ==
    UNION {[1..n -> choices] : n \in lo..MaxElements}

ParenForms ==
    {<<Tk("LParen")>> \o Separated(es, Tk("Comma")) \o trail
        \o <<Tk("RParen"), Tk("Newline")>> :
        es \in ElementLists(Elements, 0),
        trail \in {<<>>, <<Tk("Comma")>>}}
      \ {<<Tk("LParen"), Tk("Comma"), Tk("RParen"), Tk("Newline")>>}

(* Fourth, the assignments of one to MaxElements values to one to          *)
(* MaxElements targets: a name, an attribute or a parenthesized pair.      *)
TargetForms ==
    {<<Id("a")>>, <<Id("b"), Tk("Dot"), Id("c")>>,
     <<Tk("LParen"), Id("a"), Tk("Comma"), Id("b"), Tk("RParen")>>}

Assignments ==
    {Separated(ts, Tk("Comma")) \o <<Tk("Equal")>>
        \o Separated(vs, Tk("Comma")) \o <<Tk("Newline")>> :
        ts \in ElementLists(TargetForms, 1), vs \in ElementLists(Elements, 1)}

(* The expression statements of one to MaxElements comma-separated         *)
(* elements.                                                               *)
ExpressionLists ==
    {Separated(es, Tk("Comma")) \o <<Tk("Newline")>> :
        es \in ElementLists(Elements, 1)}

(* The expression statements of the name a and one to MaxPostfix postfix   *)
(* operators after it: a call, an attribute or an index.                   *)
PostfixForms ==
    {<<Tk("LParen"), Tk("RParen")>>, <<Tk("Dot"), Id("b")>>,
     <<Tk("LBracket"), Num("0"), Tk("RBracket")>>}

PostfixLists == UNION {[1..n -> PostfixForms] : n \in 1..MaxPostfix}

PostfixChains ==
    {<<Id("a")>> \o Flatten(fs) \o <<Tk("Newline")>> : fs \in PostfixLists}

(* The if statements of zero to MaxElifs elif branches, with and without   *)
(* an else branch.  Branch i has the condition BranchName(i) and the body  *)
(* BranchBody(i); the else branch has the body `return`.                   *)
BranchName(i) == Id(<<"a", "b", "c", "d", "e">>[i])

BranchBody(i) == <<"Pass", "Break", "Continue">>[(i % 3) + 1]

BranchSuite(keyword) ==
    Kw(<<"Colon", "Newline", "Indent", keyword, "Newline", "Dedent">>)

RECURSIVE ElifBranches(_, _)
ElifBranches(i, n) ==
    IF i > n THEN <<>>
    ELSE Kw(<<"Elif">>) \o <<BranchName(i)>> \o BranchSuite(BranchBody(i))
            \o ElifBranches(i + 1, n)

IfChain(n, has_else) ==
    Kw(<<"If">>) \o <<BranchName(1)>> \o BranchSuite(BranchBody(1))
        \o ElifBranches(2, n + 1)
        \o (IF has_else THEN Kw(<<"Else">>) \o BranchSuite("Return")
            ELSE <<>>)

IfChains == {IfChain(n, has_else) : n \in 0..MaxElifs, has_else \in BOOLEAN}

(* The block of one `pass`.                                                *)
Suite == Kw(<<"Colon", "Newline", "Indent", "Pass", "Newline", "Dedent">>)

(* The del and for statements of one to MaxElements targets: a name, an    *)
(* attribute, a parenthesized pair, or a parenthesized pair with a         *)
(* parenthesized name in it.                                               *)
PatternForms ==
    {<<Id("a")>>, <<Id("b"), Tk("Dot"), Id("c")>>,
     <<Tk("LParen"), Id("a"), Tk("Comma"), Id("b"), Tk("Dot"), Id("c"),
       Tk("RParen")>>,
     <<Tk("LParen"), Tk("LParen"), Id("a"), Tk("RParen"), Tk("Comma"),
       Id("b"), Tk("RParen")>>}

DelOf(ts) ==
    <<Tk("Del")>> \o Separated(ts, Tk("Comma")) \o <<Tk("Newline")>>

ForOf(ts) ==
    <<Tk("For")>> \o Separated(ts, Tk("Comma")) \o <<Tk("In"), Id("z")>>
        \o Suite

TargetStatements ==
    {DelOf(ts) : ts \in ElementLists(PatternForms, 1)}
      \cup {ForOf(ts) : ts \in ElementLists(PatternForms, 1)}

(* The same with a left side that holds an expression that is no target: a *)
(* literal, an index, or a parenthesized pair with a literal in it.        *)
NonTargetForms ==
    {<<Num("1")>>, <<Id("a"), Tk("LBracket"), Num("1"), Tk("RBracket")>>,
     <<Tk("LParen"), Id("a"), Tk("Comma"), Num("1"), Tk("RParen")>>}

InvalidTargetLists ==
    {ts \in ElementLists(TargetForms \cup NonTargetForms, 1) :
        \E i \in 1..Len(ts) : ts[i] \in NonTargetForms}

InvalidAssignments ==
    {Separated(ts, Tk("Comma")) \o <<Tk("Equal"), Num("2"), Tk("Newline")>> :
        ts \in InvalidTargetLists}

(* The compound statements with a body of `pass`, a declaration that       *)
(* returns nothing, and `pass`: the headers of the six productions, and    *)
(* the else block and the except block after a well-formed first block.    *)
BlockHeaders ==
    {Kw(<<"If">>) \o <<Id("a")>>,
     Kw(<<"If">>) \o <<Id("a")>> \o Suite \o Kw(<<"Else">>),
     Kw(<<"While">>) \o <<Id("a")>>,
     Kw(<<"For">>) \o <<Id("a")>> \o Kw(<<"In">>) \o <<Id("b")>>,
     Kw(<<"Try">>),
     Kw(<<"Try">>) \o Suite \o Kw(<<"Except">>),
     Kw(<<"Def">>) \o <<Id("f")>> \o Kw(<<"LParen", "RParen">>),
     Kw(<<"Class">>) \o <<Id("c")>>,
     Kw(<<"While">>) \o <<Id("a")>> \o Kw(<<"Colon", "Newline", "Indent">>)
        \o Kw(<<"If">>) \o <<Id("b")>>}

(* A stray Newline, a token that begins no expression, an assignment to a  *)
(* literal.                                                                *)
NoDeclarations ==
    {Kw(<<"Newline">>), Kw(<<"RParen", "Newline">>),
     <<Num("1"), Tk("Equal"), Num("2"), Tk("Newline")>>}

BrokenBlockOf(header, broken) ==
    header \o Kw(<<"Colon", "Newline", "Indent", "Pass", "Newline">>)
        \o broken \o Kw(<<"Pass", "Newline", "Dedent">>)

BrokenBlocks ==
    {BrokenBlockOf(header, broken) :
        header \in BlockHeaders, broken \in NoDeclarations}

(* Sequences with tokens after their first Eof.                            *)
TokensAfterEof ==
    {<<Tk("Eof"), Id("a"), Tk("Newline")>>,
     <<Tk("RParen"), Id("a"), Tk("Newline"), Tk("Eof"), Id("b"),
       Tk("Newline")>>,
     Kw(<<"If">>) \o <<Id("a")>> \o Kw(<<"Colon", "Newline", "Eof", "Indent",
                                          "Pass", "Newline", "Dedent">>),
     <<Tk("LParen"), Id("a"), Tk("Eof"), Tk("RParen"), Tk("Newline")>>}

(* Fifth, well-formed statements followed by `pass`, and the same with one *)
(* token left out.                                                         *)
Programs ==
    {Kw(<<"If">>) \o <<Id("a")>> \o Suite,
     Kw(<<"If">>) \o <<Id("a")>> \o Suite \o Kw(<<"Else">>) \o Suite,
     Kw(<<"If">>) \o <<Id("a")>> \o Suite \o Kw(<<"Elif">>) \o <<Id("b")>>
        \o Suite,
     Kw(<<"While">>) \o <<Id("a")>> \o Suite,
     Kw(<<"For">>) \o <<Id("a")>> \o Kw(<<"In">>) \o <<Id("b")>> \o Suite,
     Kw(<<"Def">>) \o <<Id("f"), Tk("LParen"), Id("a"), Tk("RParen")>>
        \o Suite,
     Kw(<<"Class">>) \o <<Id("c"), Tk("LParen"), Id("a"), Tk("RParen")>>
        \o Suite,
     Kw(<<"Try">>) \o Suite \o Kw(<<"Except">>) \o <<Id("a")>> \o Suite,
     <<Tk("Print"), Tk("LParen"), Id("a"), Tk("RParen"), Tk("Newline")>>,
     <<Id("f"), Tk("LParen"), Id("a"), Tk("Comma"), Id("b"), Tk("RParen"),
       Tk("Newline")>>,
     <<Id("a"), Tk("LBracket"), Num("1"), Tk("RBracket"), Tk("Newline")>>,
     <<Tk("LBracket"), Id("a"), Tk("Comma"), Id("b"), Tk("RBracket"),
       Tk("Newline")>>,
     <<Tk("LBrace"), Id("a"), Tk("Colon"), Id("b"), Tk("RBrace"),
       Tk("Newline")>>,
     <<Tk("Lambda"), Id("a"), Tk("Colon"), Id("b"), Tk("Newline")>>,
     <<Tk("Minus"), Id("a"), Tk("Dot"), Id("b"), Tk("Newline")>>,
     <<Tk("Return"), Id("a"), Tk("Newline")>>,
     <<Tk("Raise"), Tk("Newline")>>,
     <<Tk("Del"), Id("a"), Tk("Comma"), Id("b"), Tk("Newline")>>,
     <<Tk("Global"), Id("a"), Tk("Comma"), Id("b"), Tk("Newline")>>,
     <<Tk("Import"), Id("a"), Tk("Newline")>>,
     <<Tk("From"), Id("a"), Tk("Import"), Id("b"), Tk("Newline")>>,
     <<Tk("Break"), Tk("Newline"), Tk("Continue"), Tk("Newline")>>}

Without(s, i) == SubSeq(s, 1, i - 1) \o SubSeq(s, i + 1, Len(s))

BrokenPrograms ==
    {s \o Kw(<<"Pass", "Newline">>) : s \in Programs}
      \cup UNION {{Without(s, i) \o Kw(<<"Pass", "Newline">>) :
                      i \in 1..Len(s)} : s \in Programs}

TokenInputs ==
    {s \o <<Tk("Eof")>> :
        s \in BoundedTokens \cup OperatorChains \cup ParenForms
                \cup Assignments \cup ExpressionLists \cup PostfixChains
                \cup IfChains \cup TargetStatements \cup BrokenBlocks
                \cup TokensAfterEof
                \cup InvalidAssignments
                \cup BrokenPrograms}

---------------------------------------------------------------------------
(* Parser::parse(): one action is one iteration of its loop.               *)

(* No lexer has been constructed.                                          *)
NoLexer ==
    /\ src = <<>>
    /\ start = 0
    /\ current = 0
    /\ indent_stack = <<0>>
    /\ tokens = <<>>
    /\ diag = <<>>
    /\ panic = ""
    /\ status = "none"

ParserInit ==
    /\ NoLexer
    /\ parser \in {parser_new(ts) : ts \in TokenInputs}
    /\ statements = <<>>
    /\ phase = "parsing"

(* The state after an iteration that left the parser p and the statements  *)
(* stmts.                                                                  *)
ParserCommit(p, stmts) ==
    /\ parser' = p
    /\ statements' = IF p.panic # "" THEN statements ELSE stmts
    /\ phase' = IF p.panic # "" THEN "panicked" ELSE "parsing"
    /\ UNCHANGED lexer_vars

(* `if let Some(stmt) = self.declaration() { statements.push(stmt) }`      *)
ParsePush ==
    LET Push(stmt) ==
            /\ stmt.some
            /\ ParserCommit(stmt.p, Append(statements, stmt.val))
    IN  /\ phase = "parsing"
        /\ ~is_at_end(parser)
        /\ Push(Method("declaration", parser))

(* Variant of the else branch that advances twice.                         *)
ParseSkipTwo ==
    LET Skip(stmt) ==
            /\ ~stmt.some
            /\ ParserCommit(parser_advance(parser_advance(stmt.p).p).p,
                            statements)
    IN  /\ phase = "parsing"
        /\ ~is_at_end(parser)
        /\ Skip(Method("declaration", parser))

(* `else { self.advance(); }`                                              *)
ParseSkip ==
    LET Skip(stmt) ==
            /\ ~stmt.some
            /\ ParserCommit(parser_advance(stmt.p).p, statements)
    IN  /\ phase = "parsing"
        /\ ~is_at_end(parser)
        /\ Skip(Method("declaration", parser))

(* The loop is over: parse() returns the statements.                       *)
ParseReturn ==
    /\ phase = "parsing"
    /\ is_at_end(parser)
    /\ phase' = "returned"
    /\ UNCHANGED <<parser, statements>>
    /\ UNCHANGED lexer_vars

ParserNext ==
    \/ ParsePush
    \/ ParseSkip
    \/ ParseReturn

ParserSpec == ParserInit /\ [][ParserNext]_vars

---------------------------------------------------------------------------
(* Vocabulary of the properties, defined on the source text and on the     *)
(* token sequence only.                                                    *)

Count(ts, k) == Cardinality({i \in 1..Len(ts) : ts[i].token_type = k})

Kinds(ts) == [i \in 1..Len(ts) |-> ts[i].token_type]

(* The kinds of the tokens that the step under consideration appends.      *)
NewKinds == Kinds(SubSeq(tokens', Len(tokens) + 1, Len(tokens')))

Top(stack) == stack[Len(stack)]

(* The width of the line that begins at position i of the text s: 1 for a  *)
(* space, 4 for a tab, 0 for a carriage return, up to the first other      *)
(* character or the end of the text.                                       *)
RECURSIVE LineWidth(_, _)
LineWidth(s, i) ==
    IF i > Len(s) THEN 0
    ELSE IF s[i] = " " THEN 1 + LineWidth(s, i + 1)
    ELSE IF s[i] = "\t" THEN 4 + LineWidth(s, i + 1)
    ELSE IF s[i] = "\r" THEN LineWidth(s, i + 1)
    ELSE 0

(* The position of the first character at or after i that is not a blank   *)
(* (Len(s) + 1 when the blanks run to the end of the text).                *)
RECURSIVE BlankRunEnd(_, _)
BlankRunEnd(s, i) ==
    IF i <= Len(s) /\ s[i] \in {" ", "\t", "\r"} THEN BlankRunEnd(s, i + 1)
    ELSE i

(* The positions of the newline characters of s, from position i on, that  *)
(* are outside a string literal.  mode is "code", "comment" or the quote   *)
(* of the string literal that position i is in.  A string literal runs     *)
(* from its quote to the same quote, to a newline or to the end of the     *)
(* text; a backslash in it takes the next character with it.               *)
RECURSIVE OutsideNewlines(_, _, _)
OutsideNewlines(s, i, mode) ==
    IF i > Len(s) THEN {}
    ELSE IF mode = "code"
    THEN IF s[i] \in {"\"", "'"} THEN OutsideNewlines(s, i + 1, s[i])
         ELSE IF s[i] = "#" THEN OutsideNewlines(s, i + 1, "comment")
         ELSE IF s[i] = "\n" THEN {i} \cup OutsideNewlines(s, i + 1, "code")
         ELSE OutsideNewlines(s, i + 1, "code")
    ELSE IF mode = "comment"
    THEN IF s[i] = "\n" THEN {i} \cup OutsideNewlines(s, i + 1, "code")
         ELSE IF s[i] = NUL THEN OutsideNewlines(s, i + 1, "code")
         ELSE OutsideNewlines(s, i + 1, "comment")
    ELSE IF s[i] = "\\" THEN OutsideNewlines(s, i + 2, mode)
         ELSE IF s[i] \in {mode, "\n"} THEN OutsideNewlines(s, i + 1, "code")
         ELSE OutsideNewlines(s, i + 1, mode)

LineBreaks == OutsideNewlines(src, 1, "code")

(* The next call of lex() reads a newline.                                 *)
AtNewline ==
    /\ status = "running"
    /\ current < Len(src)
    /\ src[current + 1] = "\n"

(* The line after that newline can be measured: its blanks do not run into *)
(* the end of a text that has more bytes than characters.                  *)
Measurable ==
    BlankRunEnd(src, current + 2) <= Len(src) \/ ByteLen(src) = Len(src)

(* The width of the line after that newline.                               *)
NextWidth == LineWidth(src, current + 2)

---------------------------------------------------------------------------
(* Properties of the tokenizer.                                            *)

(* C1: analyze is total: unless the indentation of the source is           *)
(* inconsistent, it never aborts (it runs to completion whatever the       *)
(* malformed input: unterminated strings, a backslash that ends an         *)
(* unclosed string, unrecognized characters, long digit runs).             *)
C1_AnalyzeTotal ==
    status = "panicked" => panic = "Inconsistent indentation"

(* C2: when analyze has completed, the token sequence holds exactly one    *)
(* Eof and it is the last token; and no Eof is in the sequence before the  *)
(* whole source has been consumed.                                         *)
C2_SingleTrailingEof ==
    /\ status = "done" =>
          /\ tokens # <<>>
          /\ tokens[Len(tokens)].token_type = "Eof"
          /\ Count(tokens, "Eof") = 1
    /\ Count(tokens, "Eof") > 0 => current >= ByteLen(src)

C2_Witness ==
    /\ status = "done"
    /\ Len(tokens) >= 4
    /\ Count(tokens, "Identifier") >= 1

(* C3: the indentation stack is never empty, its bottom entry is 0 and its *)
(* entries increase strictly from bottom to top.                           *)
C3_StackStrictlyIncreasing ==
    /\ indent_stack # <<>>
    /\ indent_stack[1] = 0
    /\ \A i \in 1..(Len(indent_stack) - 1) :
          indent_stack[i] < indent_stack[i + 1]

(* Two nested widths have been pushed and the inner one popped again.      *)
C3_Witness ==
    /\ Len(indent_stack) = 2
    /\ \E i, j, k \in 1..Len(tokens) :
          /\ i < j /\ j < k
          /\ tokens[i].token_type = "Indent"
          /\ tokens[j].token_type = "Indent"
          /\ tokens[k].token_type = "Dedent"
          /\ \A m \in i..k : tokens[m].token_type # "Dedent" \/ m = k


(* The width of the last line that follows a newline outside a string      *)
(* literal (0 when the source has no such newline).                        *)
LastLineWidth ==
    IF LineBreaks = {} THEN 0
    ELSE LineWidth(src, (CHOOSE p \in LineBreaks :
                            \A q \in LineBreaks : q <= p) + 1)

C6_InconsistentIndentationIsFatal ==
    [][/\ status # "panicked"
       /\ (/\ AtNewline
           /\ Measurable
           /\ NextWidth < Top(indent_stack)
           /\ \A i \in 1..Len(indent_stack) : indent_stack[i] # NextWidth)
          => /\ status' = "panicked"
             /\ panic' = "Inconsistent indentation"
             /\ Count(tokens', "Eof") = 0]_vars

C6_Witness ==
    /\ status = "panicked"
    /\ panic = "Inconsistent indentation"
    /\ Count(tokens, "Dedent") >= 1
    /\ Count(tokens, "Identifier") >= 1

(* C7: a blank line (the newline read is followed at once by another       *)
(* newline) emits its Newline token and nothing else, and leaves the       *)
(* indentation stack unchanged.                                            *)
C7_BlankLineKeepsStack ==
    [][(AtNewline /\ current + 2 <= Len(src) /\ src[current + 2] = "\n") =>
          /\ NewKinds = <<"Newline">>
          /\ indent_stack' = indent_stack]_vars

(* C8: a first line that begins with blanks of width greater than 0 before *)
(* its first content token makes Indent the first token of the output.     *)
C8_FirstLineIndent ==
    (/\ tokens # <<>>
     /\ LineWidth(src, 1) > 0
     /\ BlankRunEnd(src, 1) <= Len(src)
     /\ src[BlankRunEnd(src, 1)] # "\n")
    => tokens[1].token_type = "Indent"

(* C9: between any two Indent tokens of the output there is a content      *)
(* token (one that is not Newline, Indent or Dedent).                      *)
C9_ContentBetweenIndents ==
    \A i, j \in 1..Len(tokens) :
        (/\ i < j
         /\ tokens[i].token_type = "Indent"
         /\ tokens[j].token_type = "Indent")
        => \E k \in (i + 1)..(j - 1) :
              tokens[k].token_type \notin {"Newline", "Indent", "Dedent"}

(* C10: when analyze has completed, the output has one Newline token per   *)
(* newline outside a string literal; and if every line after such a        *)
(* newline has width 0, it has no Indent and no Dedent token.              *)
C10_OneNewlinePerLineBreak ==
    status = "done" =>
        /\ Count(tokens, "Newline") = Cardinality(LineBreaks)
        /\ (\A p \in LineBreaks : LineWidth(src, p + 1) = 0) =>
              /\ Count(tokens, "Indent") = 0
              /\ Count(tokens, "Dedent") = 0

(* A completed source of width 0 with a comment line and a blank line.     *)
C10_Witness ==
    /\ status = "done"
    /\ Cardinality(LineBreaks) = 2
    /\ \A p \in LineBreaks : LineWidth(src, p + 1) = 0
    /\ src[1] = "#"
    /\ \E p \in LineBreaks : p + 1 \in LineBreaks
    /\ Count(tokens, "Newline") = 2

(* C11 as claimed: a step of handle_identifier on a source of ASCII        *)
(* characters reads the longest run of letters, digits and underscores at  *)
(* the cursor; it appends one token, which is the keyword token without    *)
(* literal if the run is one of the twenty-five keywords of the claim, and *)
(* otherwise an Identifier token whose literal is Identifier(run).         *)
Ascii(s) == \A i \in 1..Len(s) : Utf8Len(s[i]) = 1

Lexeme == SubSeq(src, current + 1, current')

LongestRun ==
    /\ \A i \in (current + 2)..current' :
          src[i] \in Digits \cup Letters \cup {"_"}
    /\ current' < Len(src) =>
          src[current' + 1] \notin Digits \cup Letters \cup {"_"}

KeywordOrIdentifier(keywords) ==
    /\ LongestRun
    /\ Len(tokens') = Len(tokens) + 1
    /\ LET t == tokens'[Len(tokens')]
       IN  IF Lexeme \in keywords
           THEN /\ t.token_type # "Identifier"
                /\ Lexeme \in DOMAIN KEYWORDS
                /\ t.token_type = KEYWORDS[Lexeme]
                /\ t.literal = NoLiteral
           ELSE /\ t.token_type = "Identifier"
                /\ t.literal = Literal("Identifier", Lexeme)

RECURSIVE StringEnd(_, _, _)
StringEnd(s, i, q) ==
    IF i > Len(s) THEN "eof"
    ELSE IF s[i] = q THEN "closed"
    ELSE IF s[i] = "\\" THEN StringEnd(s, i + 2, q)
    ELSE IF s[i] = "\n" THEN "newline"
    ELSE StringEnd(s, i + 1, q)

(* C12: a step of handle_string on a literal that a newline or the end of  *)
(* the input ends before its closing quote appends no token, reports a     *)
(* diagnostic, and leaves the tokenizer running towards the final Eof.     *)
C12_UnterminatedStringIsSkipped ==
    [][LexString /\ StringEnd(src, current + 2, src[current + 1]) # "closed"
         => /\ tokens' = tokens
            /\ Len(diag') > Len(diag)
            /\ diag'[Len(diag')] = "Unterminated string"
            /\ status' = "running"]_vars

---------------------------------------------------------------------------
(* Properties of the parser.                                               *)

(* The production of the iteration of parse() that begins in the state,    *)
(* and the cursor where it stops.                                          *)
Parsed == declaration(parser)

Stopped == Parsed.p.current

(* C13: parse() never panics on a token sequence that ends with Eof: the   *)
(* cursor stays on a token of the sequence (so that neither peek() nor,    *)
(* after an advance, peek_previous() indexes out of the bounds), and       *)
(* parse() returns only at Eof.                                            *)
C13_ParseNeverPanics ==
    /\ phase # "panicked"
    /\ parser.panic = ""
    /\ phase \in {"parsing", "returned"} =>
          /\ parser.current < Len(parser.tokens)
          /\ \A i \in 1..parser.current :
                parser.tokens[i].token_type # "Eof"
    /\ phase = "returned" => parser_peek(parser).token_type = "Eof"

(* A def whose body reaches Eof without a Dedent has been parsed into a    *)
(* function definition, with the diagnostic of the missing Dedent.         *)
C13_Witness ==
    /\ phase = "returned"
    /\ Kinds(parser.tokens) =
          <<"Def", "Identifier", "LParen", "Identifier", "RParen", "Colon",
            "Newline", "Indent", "Pass", "Newline", "Pass", "Newline", "Eof">>
    /\ Len(statements) = 1
    /\ statements[1].node = "FunctionDef"
    /\ Len(statements[1].body) = 2
    /\ parser.diag = <<"Expected dedent after function body">>

(* C14: an iteration of parse() whose production returns no statement      *)
(* leaves the cursor exactly one token after the token where the           *)
(* production stopped (on that token if it is Eof, which is never passed), *)
(* keeps the statements and goes on parsing; an iteration whose production *)
(* returns a statement appends it after the statements parsed before, and  *)
(* parse() returns only at Eof.                                            *)
C14_SkipOneTokenAndContinue ==
    [][/\ (phase = "parsing" /\ ~is_at_end(parser)) =>
            /\ phase' = "parsing"
            /\ Stopped >= parser.current
            /\ Parsed.some =>
                  /\ statements' = Append(statements, Parsed.val)
                  /\ parser'.current = Stopped
                  /\ Stopped > parser.current
            /\ ~Parsed.some =>
                  /\ statements' = statements
                  /\ parser'.current =
                        IF parser.tokens[Stopped + 1].token_type = "Eof"
                        THEN Stopped ELSE Stopped + 1
       /\ phase' = "returned" =>
            /\ parser.tokens[parser.current + 1].token_type = "Eof"
            /\ statements' = statements]_vars

(* A closing parenthesis has been skipped and the expression statement     *)
(* after it parsed.                                                        *)
C14_Witness ==
    /\ phase = "returned"
    /\ Kinds(parser.tokens) = <<"RParen", "Identifier", "Newline", "Eof">>
    /\ statements = <<StmtExpression(ExprVariable(<<"a">>))>>

(* C15: an iteration of parse() whose production returns no statement has  *)
(* reported at least one diagnostic.                                       *)
C15_NoSilentDrop ==
    [][(phase = "parsing" /\ ~is_at_end(parser) /\ ~Parsed.some) =>
          Len(parser'.diag) > Len(parser.diag)]_vars

(* The diagnostics of consume() for a missing ':', Newline, Indent,        *)
(* Dedent, ')', ']', '}' or 'in'.                                          *)
MissingTokenMessages ==
    {"Expected ')' after arguments", "Expected ')' after base class",
     "Expected ')' after expression", "Expected ')' after parameters",
     "Expected ')' after tuple pattern", "Expected ':' after class header",
     "Expected ':' after else", "Expected ':' after except",
     "Expected ':' after function header",
     "Expected ':' after if condition", "Expected ':' after iterable",
     "Expected ':' after lambda parameters", "Expected ':' after try",
     "Expected ':' after while condition",
     "Expected ':' between key and value in dict",
     "Expected ']' after index", "Expected ']' after list literal",
     "Expected 'in' after loop variable", "Expected '}' after dict literal",
     "Expected dedent after class body", "Expected dedent after else block",
     "Expected dedent after except block",
     "Expected dedent after for block",
     "Expected dedent after function body",
     "Expected dedent after if block", "Expected dedent after try block",
     "Expected dedent after while block",
     "Expected indent after class header",
     "Expected indent after else statement", "Expected indent after except",
     "Expected indent after for loop", "Expected indent after if statement",
     "Expected indent after try", "Expected indent after while",
     "Expected indent before function body", "Expected newline after ':'",
     "Expected newline after assignment", "Expected newline after break",
     "Expected newline after continue", "Expected newline after del",
     "Expected newline after else ':'",
     "Expected newline after except ':')",
     "Expected newline after expression",
     "Expected newline after from import", "Expected newline after global",
     "Expected newline after import", "Expected newline after pass",
     "Expected newline after print", "Expected newline after raise",
     "Expected newline after return", "Expected newline after try ':')"}

(* The diagnostics that the step under consideration reports.              *)
NewDiag ==
    {parser'.diag[i] : i \in (Len(parser.diag) + 1)..Len(parser'.diag)}

(* C16: an iteration of parse() whose production has reported a missing    *)
(* ':', Newline, Indent, Dedent, ')', ']', '}' or 'in' returns no          *)
(* statement.                                                              *)
C16_MissingTokenReturnsNothing ==
    [][(phase = "parsing" /\ NewDiag \cap MissingTokenMessages # {}) =>
          statements' = statements]_vars

(* The input is operands (names or integers) separated by binary           *)
(* operators, then Newline and Eof.                                        *)
IsOperatorChain(ts) ==
    /\ Len(ts) >= 5
    /\ Len(ts) % 2 = 1
    /\ ts[Len(ts)].token_type = "Eof"
    /\ ts[Len(ts) - 1].token_type = "Newline"
    /\ \A i \in 1..(Len(ts) - 2) :
          IF i % 2 = 1 THEN ts[i].token_type \in {"Identifier", "Int"}
          ELSE ts[i].token_type \in BinaryOperators

(* The operands and operators of the first n tokens, as a sequence of      *)
(* literal values and operator kinds.                                      *)
Flat(ts, n) ==
    [i \in 1..n |-> IF i % 2 = 1 THEN ts[i].literal.value[1]
                    ELSE ts[i].token_type]

(* The operands and operators of an expression from left to right.         *)
RECURSIVE InOrder(_)
InOrder(expr) ==
    CASE expr.node = "Binary" ->
            InOrder(expr.left) \o <<expr.op>> \o InOrder(expr.right)
      [] expr.node = "Variable" -> <<expr.name[1]>>
      [] expr.node = "Literal" -> <<expr.value.value[1]>>
      [] OTHER -> <<"?">>

(* The precedence levels of the claim, from the lowest to the highest.     *)
ClaimedLevel(op) ==
    CASE op = "Or" -> 1
      [] op = "And" -> 2
      [] op = "Pipe" -> 3
      [] op = "Caret" -> 4
      [] op = "Ampersand" -> 5
      [] op \in {"EqualEqual", "NotEqual"} -> 6
      [] op \in {"Less", "LessEqual", "Greater", "GreaterEqual", "Is"} -> 7
      [] op \in {"Plus", "Minus"} -> 8
      [] op \in {"Star", "Slash", "Modulo"} -> 9
      [] op = "StarStar" -> 10

(* No operand of a binary operator is a binary expression of an operator   *)
(* of a lower level.                                                       *)
RECURSIVE NestsByPrecedence(_)
NestsByPrecedence(expr) ==
    expr.node = "Binary" =>
        /\ \A operand \in {expr.left, expr.right} :
              operand.node = "Binary" =>
                  ClaimedLevel(operand.op) >= ClaimedLevel(expr.op)
        /\ NestsByPrecedence(expr.left)
        /\ NestsByPrecedence(expr.right)

(* C17: an expression statement of operands separated by binary operators  *)
(* parses into one expression that has the operands and operators of the   *)
(* input in their order, and where an operator of a higher level binds     *)
(* tighter than one of a lower level, the levels being from the lowest:    *)
(* or, and, |, ^, &, equality, comparison, + -, * / %, **.                 *)
C17_PrecedenceNesting ==
    (phase = "returned" /\ IsOperatorChain(parser.tokens)) =>
        /\ Len(statements) = 1
        /\ statements[1].node = "Expression"
        /\ InOrder(statements[1].expr) =
              Flat(parser.tokens, Len(parser.tokens) - 2)
        /\ NestsByPrecedence(statements[1].expr)
        /\ parser.diag = <<>>

(* `2 + 3 * 4 ** 2` has been parsed as 2 + (3 * (4 ** 2)).                  *)
C17_Witness ==
    /\ phase = "returned"
    /\ IsOperatorChain(parser.tokens)
    /\ Flat(parser.tokens, Len(parser.tokens) - 2) =
          <<"2", "Plus", "3", "Star", "4", "StarStar", "2">>
    /\ statements =
          <<StmtExpression(
              ExprBinary(ExprLiteral(Literal("Int", <<"2">>)), "Plus",
                ExprBinary(ExprLiteral(Literal("Int", <<"3">>)), "Star",
                  ExprBinary(ExprLiteral(Literal("Int", <<"4">>)),
                             "StarStar",
                             ExprLiteral(Literal("Int", <<"2">>))))))>>

(* The input is a chain of operands separated by `**` only.                *)
IsPowerChain(ts) ==
    /\ IsOperatorChain(ts)
    /\ \A i \in 1..(Len(ts) - 2) : i % 2 = 0 => ts[i].token_type = "StarStar"

(* The expression of the operand token tok.                                *)
OperandExpr(tok) ==
    IF tok.token_type = "Identifier" THEN ExprVariable(tok.literal.value)
    ELSE ExprLiteral(tok.literal)

(* The operands of ts from the i-th token to the n-th, nested to the       *)
(* right: Binary{ts[i], **, Binary{ts[i + 2], **, ...}}.                   *)
RECURSIVE RightNested(_, _, _)
RightNested(ts, i, n) ==
    IF i >= n THEN OperandExpr(ts[i])
    ELSE ExprBinary(OperandExpr(ts[i]), "StarStar", RightNested(ts, i + 2, n))

(* C18: an expression statement that is a chain of operands separated by   *)
(* `**` parses into the one expression Binary{a, **, Binary{b, **, c}}:    *)
(* the right operand of each `**` is the power expression of the rest of   *)
(* the chain.                                                              *)
C18_PowerIsRightAssociative ==
    (phase = "returned" /\ IsPowerChain(parser.tokens)) =>
        /\ statements =
              <<StmtExpression(
                  RightNested(parser.tokens, 1, Len(parser.tokens) - 2))>>
        /\ parser.diag = <<>>

(* `a ** b ** c` has been parsed as a ** (b ** c).                         *)
C18_Witness ==
    /\ phase = "returned"
    /\ IsPowerChain(parser.tokens)
    /\ Len(parser.tokens) = 7
    /\ statements =
          <<StmtExpression(
              ExprBinary(ExprVariable(<<"a">>), "StarStar",
                ExprBinary(ExprVariable(<<"b">>), "StarStar",
                           ExprVariable(<<"c">>))))>>

(* The input is `(`, operands separated by commas with or without a comma  *)
(* after the last one, `)`, Newline and Eof.                               *)
IsParenForm(ts) ==
    /\ Len(ts) >= 4
    /\ ts[1].token_type = "LParen"
    /\ ts[Len(ts) - 2].token_type = "RParen"
    /\ ts[Len(ts) - 1].token_type = "Newline"
    /\ ts[Len(ts)].token_type = "Eof"
    /\ \A i \in 2..(Len(ts) - 3) :
          IF i % 2 = 0 THEN ts[i].token_type \in {"Identifier", "Int"}
          ELSE ts[i].token_type = "Comma"

(* The number of expressions between the parentheses, and whether a comma  *)
(* follows the last one.                                                   *)
ParenCount(ts) == (Len(ts) - 3) \div 2

ParenTrailingComma(ts) == Len(ts) > 4 /\ Len(ts) % 2 = 0

ParenExprs(ts) == [j \in 1..ParenCount(ts) |-> OperandExpr(ts[2 * j])]

(* C19: a parenthesized primary is classified by its commas: `()` is the   *)
(* empty Tuple, one expression without a comma is a Grouping of it, one    *)
(* expression with a trailing comma is a Tuple of one element, and two or  *)
(* more expressions, with a trailing comma or not, are the Tuple of these  *)
(* expressions in their order.                                             *)
C19_ParenthesizedByCommas ==
    (phase = "returned" /\ IsParenForm(parser.tokens)) =>
        /\ statements =
              <<StmtExpression(
                  IF ParenCount(parser.tokens) = 1
                     /\ ~ParenTrailingComma(parser.tokens)
                  THEN ExprGrouping(ParenExprs(parser.tokens)[1])
                  ELSE ExprTuple(ParenExprs(parser.tokens)))>>
        /\ parser.diag = <<>>

(* `(1,)` has been parsed as the Tuple of the one element 1.               *)
C19_Witness ==
    /\ phase = "returned"
    /\ IsParenForm(parser.tokens)
    /\ ParenCount(parser.tokens) = 1
    /\ ParenTrailingComma(parser.tokens)
    /\ statements =
          <<StmtExpression(
              ExprTuple(<<ExprLiteral(Literal("Int", <<"1">>))>>))>>

(* The target that a target form reduces to: a name to Name, an attribute  *)
(* to Attribute, a parenthesized pair of names to the Tuple of the Names.  *)
ReducedTarget(form) ==
    CASE Len(form) = 1 -> TargetName(form[1].literal.value)
      [] Len(form) = 3 ->
            TargetAttribute(OperandExpr(form[1]), form[3].literal.value)
      [] Len(form) = 5 ->
            TargetTuple(<<TargetName(form[2].literal.value),
                          TargetName(form[4].literal.value)>>)

(* The statement `ts[1], ..., ts[n] = vs[1], ..., vs[m]`.                  *)
AssignmentOf(ts, vs) ==
    Separated(ts, Tk("Comma")) \o <<Tk("Equal")>>
        \o Separated(vs, Tk("Comma")) \o <<Tk("Newline"), Tk("Eof")>>

(* The Assign that the claim gives for n target forms and m values.        *)
ClaimedAssign(ts, vs) ==
    StmtAssign(
        IF Len(ts) = 1 THEN ReducedTarget(ts[1])
        ELSE TargetTuple([i \in 1..Len(ts) |-> ReducedTarget(ts[i])]),
        IF Len(vs) = 1 THEN OperandExpr(vs[1][1])
        ELSE ExprTuple([j \in 1..Len(vs) |-> OperandExpr(vs[j][1])]))

(* C20: a statement `e1, ..., en = v1, ..., vm` whose left expressions     *)
(* reduce to targets parses into exactly one Assign; its target is the     *)
(* reduced target when n = 1 and the Tuple of the n reduced targets in     *)
(* order when n >= 2, its value the expression when m = 1 and the Tuple of *)
(* the m expressions when m >= 2.                                          *)
C20_AssignmentTargetsAndValues ==
    phase = "returned" =>
        \A ts \in ElementLists(TargetForms, 1),
           vs \in ElementLists(Elements, 1) :
            parser.tokens = AssignmentOf(ts, vs) =>
                /\ statements = <<ClaimedAssign(ts, vs)>>
                /\ parser.diag = <<>>

(* `a, b.c = 1, a` has been parsed into the Assign of Tuple([1, a]) to     *)
(* Tuple([Name(a), Attribute(b, c)]).                                      *)
C20_Witness ==
    /\ phase = "returned"
    /\ parser.tokens =
          AssignmentOf(<<<<Id("a")>>, <<Id("b"), Tk("Dot"), Id("c")>>>>,
                       <<<<Num("1")>>, <<Id("a")>>>>)
    /\ statements =
          <<StmtAssign(
              TargetTuple(<<TargetName(<<"a">>),
                            TargetAttribute(ExprVariable(<<"b">>), <<"c">>)>>),
              ExprTuple(<<ExprLiteral(Literal("Int", <<"1">>)),
                          ExprVariable(<<"a">>)>>))>>

---------------------------------------------------------------------------
(* The statement `ts[1], ..., ts[n] = 2` of an invalid target list.        *)
InvalidAssignmentOf(ts) ==
    Separated(ts, Tk("Comma"))
        \o <<Tk("Equal"), Num("2"), Tk("Newline"), Tk("Eof")>>

IsAssign(stmt) == stmt.node = "Assign"

(* The position after the `=` of the statement.                            *)
AfterEqual(ts) == Len(Separated(ts, Tk("Comma"))) + 1

(* C21: when the expression list before `=` holds an expression that is    *)
(* neither a Variable, nor a Get, nor a Tuple of reducible expressions,    *)
(* assignment_or_expression() reports "Invalid assignment target" and      *)
(* returns nothing, with the cursor after the `=`, and parse() returns no  *)
(* Assign for the statement.                                               *)
C21_InvalidTargetAborts ==
    \A ts \in InvalidTargetLists :
        parser.tokens = InvalidAssignmentOf(ts) =>
            /\ (phase = "parsing" /\ parser.current = 0) =>
                  /\ ~assignment_or_expression(parser).some
                  /\ assignment_or_expression(parser).p.diag
                        = <<"Invalid assignment target">>
                  /\ assignment_or_expression(parser).p.current
                        = AfterEqual(ts)
            /\ \A i \in 1..Len(statements) : ~IsAssign(statements[i])
            /\ phase = "returned" =>
                  \E i \in 1..Len(parser.diag) :
                      parser.diag[i] = "Invalid assignment target"

(* `a, 1 = 2` has been parsed: the diagnostic is there, and no statement.  *)
C21_Witness ==
    /\ phase = "returned"
    /\ parser.tokens = InvalidAssignmentOf(<<<<Id("a")>>, <<Num("1")>>>>)
    /\ parser.diag[1] = "Invalid assignment target"
    /\ statements = <<>>

---------------------------------------------------------------------------
(* The statement `es[1], ..., es[n]` and a newline.                        *)
ExpressionListOf(es) ==
    Separated(es, Tk("Comma")) \o <<Tk("Newline"), Tk("Eof")>>

(* The Expression statement that the claim gives for n elements.           *)
ClaimedExpression(es) ==
    StmtExpression(
        IF Len(es) = 1 THEN OperandExpr(es[1][1])
        ELSE ExprTuple([i \in 1..Len(es) |-> OperandExpr(es[i][1])]))

(* C22: a comma-separated expression list at statement level that no `=`   *)
(* follows parses into one Expression statement and no Assign: of the bare *)
(* expression when the list has one element, of the Tuple of all elements  *)
(* in order when it has two or more.                                       *)
C22_ExpressionListStatement ==
    phase = "returned" =>
        \A es \in ElementLists(Elements, 1) :
            parser.tokens = ExpressionListOf(es) =>
                /\ statements = <<ClaimedExpression(es)>>
                /\ parser.diag = <<>>

(* `a, 1` has been parsed into the Expression of Tuple([a, 1]).            *)
C22_Witness ==
    /\ phase = "returned"
    /\ parser.tokens = ExpressionListOf(<<<<Id("a")>>, <<Num("1")>>>>)
    /\ statements =
          <<StmtExpression(ExprTuple(<<ExprVariable(<<"a">>),
                                       ExprLiteral(Literal("Int", <<"1">>))>>))>>

---------------------------------------------------------------------------
(* The statement of the name a, the postfix operators fs and a newline.    *)
PostfixChainOf(fs) ==
    <<Id("a")>> \o Flatten(fs) \o <<Tk("Newline"), Tk("Eof")>>

(* The postfix operator form around the expression expr.                   *)
Wrapped(expr, form) ==
    CASE form[1].token_type = "LParen" -> ExprCall(expr, <<>>)
      [] form[1].token_type = "Dot" -> ExprGet(expr, form[2].literal.value)
      [] form[1].token_type = "LBracket" ->
            ExprIndex(expr, OperandExpr(form[2]))

(* The first n operators of fs around the name a, the last one outermost.  *)
RECURSIVE Applied(_, _)
Applied(fs, n) ==
    IF n = 0 THEN ExprVariable(<<"a">>)
    ELSE Wrapped(Applied(fs, n - 1), fs[n])

(* C23: the postfix operators after a primary are applied in the order of  *)
(* the tokens, whatever their kinds: each call, attribute or index wraps   *)
(* the expression built so far, and the last one is the outermost node.    *)
C23_PostfixInTokenOrder ==
    phase = "returned" =>
        \A fs \in PostfixLists :
            parser.tokens = PostfixChainOf(fs) =>
                /\ statements = <<StmtExpression(Applied(fs, Len(fs)))>>
                /\ parser.diag = <<>>

(* `a.b()[0]` has been parsed into Index(Call(Get(a, b)), 0).              *)
C23_Witness ==
    /\ phase = "returned"
    /\ parser.tokens =
          PostfixChainOf(<<<<Tk("Dot"), Id("b")>>,
                           <<Tk("LParen"), Tk("RParen")>>,
                           <<Tk("LBracket"), Num("0"), Tk("RBracket")>>>>)
    /\ statements =
          <<StmtExpression(
              ExprIndex(ExprCall(ExprGet(ExprVariable(<<"a">>), <<"b">>),
                                 <<>>),
                        ExprLiteral(Literal("Int", <<"0">>))))>>

---------------------------------------------------------------------------
BodyStmt(keyword) == [node |-> keyword]

(* The If that the claim gives for the branches i to n and the else.       *)
RECURSIVE NestedIf(_, _, _)
NestedIf(i, n, has_else) ==
    StmtIf(ExprVariable(BranchName(i).literal.value),
           <<BodyStmt(BranchBody(i))>>,
           IF i < n THEN << <<NestedIf(i + 1, n, has_else)>> >>
           ELSE IF has_else THEN << <<StmtReturn(<<>>)>> >>
           ELSE <<>>)

(* C24: `elif` is nesting.  `if c1: A elif c2: B else: C` parses into the  *)
(* If of c1 and A whose else branch is the one If of c2 and B whose else   *)
(* branch is C, and so on for every further elif.                          *)
C24_ElifNests ==
    phase = "returned" =>
        \A n \in 0..MaxElifs, has_else \in BOOLEAN :
            parser.tokens = IfChain(n, has_else) \o <<Tk("Eof")>> =>
                /\ statements = <<NestedIf(1, n + 1, has_else)>>
                /\ parser.diag = <<>>

(* `if a: break elif b: continue else: return` has been parsed into        *)
(* If{a, [Break], else: [If{b, [Continue], else: [Return]}]}.              *)
C24_Witness ==
    /\ phase = "returned"
    /\ parser.tokens = IfChain(1, TRUE) \o <<Tk("Eof")>>
    /\ statements =
          <<StmtIf(ExprVariable(<<"a">>), <<StmtBreak>>,
                   << <<StmtIf(ExprVariable(<<"b">>), <<StmtContinue>>,
                               << <<StmtReturn(<<>>)>> >>)>> >>)>>

---------------------------------------------------------------------------
(* The target that the claim gives for a form of PatternForms.             *)
PatternTarget(form) ==
    CASE form = <<Id("a")>> -> TargetName(<<"a">>)
      [] form = <<Id("b"), Tk("Dot"), Id("c")>> ->
            TargetAttribute(ExprVariable(<<"b">>), <<"c">>)
      [] Len(form) = 7 /\ form[2] = Id("a") ->
            TargetTuple(<<TargetName(<<"a">>),
                          TargetAttribute(ExprVariable(<<"b">>), <<"c">>)>>)
      [] Len(form) = 7 /\ form[2] = Tk("LParen") ->
            TargetTuple(<<TargetTuple(<<TargetName(<<"a">>)>>),
                          TargetName(<<"b">>)>>)

(* The target that the claim gives for the list ts at statement level.     *)
ClaimedTarget(ts) ==
    IF Len(ts) = 1 THEN PatternTarget(ts[1])
    ELSE TargetTuple([i \in 1..Len(ts) |-> PatternTarget(ts[i])])

(* C25: in the targets of `for` and `del`, a parenthesized comma list is   *)
(* the Tuple of the targets of its elements, nested parentheses nesting; a *)
(* bare identifier is a Name, or an Attribute when `.name` follows it; and *)
(* the list at statement level is its element when it has one and the     *)
(* Tuple of its elements in order when it has two or more.                 *)
C25_ForAndDelTargets ==
    phase = "returned" =>
        \A ts \in ElementLists(PatternForms, 1) :
            /\ parser.tokens = DelOf(ts) \o <<Tk("Eof")>> =>
                  /\ statements = <<StmtDel(ClaimedTarget(ts))>>
                  /\ parser.diag = <<>>
            /\ parser.tokens = ForOf(ts) \o <<Tk("Eof")>> =>
                  /\ statements =
                        <<StmtFor(ClaimedTarget(ts), ExprVariable(<<"z">>),
                                  <<StmtPass>>)>>
                  /\ parser.diag = <<>>

(* `for ((a), b), b.c in z: pass` has been parsed into the For of          *)
(* Tuple([Tuple([Tuple([Name a]), Name b]), Attribute(b, c)]).             *)
C25_Witness ==
    /\ phase = "returned"
    /\ parser.tokens =
          ForOf(<<<<Tk("LParen"), Tk("LParen"), Id("a"), Tk("RParen"),
                    Tk("Comma"), Id("b"), Tk("RParen")>>,
                  <<Id("b"), Tk("Dot"), Id("c")>>>>) \o <<Tk("Eof")>>
    /\ statements =
          <<StmtFor(
              TargetTuple(
                  <<TargetTuple(<<TargetTuple(<<TargetName(<<"a">>)>>),
                                  TargetName(<<"b">>)>>),
                    TargetAttribute(ExprVariable(<<"b">>), <<"c">>)>>),
              ExprVariable(<<"z">>), <<StmtPass>>)>>

---------------------------------------------------------------------------
(* The input is a chain of operands separated by operators of one level    *)
(* other than power.                                                       *)
IsLevelChain(ts) ==
    /\ IsOperatorChain(ts)
    /\ \A i, j \in 1..(Len(ts) - 2) :
          (i % 2 = 0 /\ j % 2 = 0) =>
              /\ ClaimedLevel(ts[i].token_type) < 10
              /\ ClaimedLevel(ts[i].token_type)
                    = ClaimedLevel(ts[j].token_type)

(* The first n tokens of ts nested to the left:                            *)
(* Binary{Binary{ts[1], ts[2], ts[3]}, ts[4], ts[5]} ...                   *)
RECURSIVE LeftNested(_, _)
LeftNested(ts, n) ==
    IF n <= 1 THEN OperandExpr(ts[1])
    ELSE ExprBinary(LeftNested(ts, n - 2), ts[n - 1].token_type,
                    OperandExpr(ts[n]))

(* C26: every binary level other than power is left-associative: a chain   *)
(* `a op1 b op2 c` of operators of one level parses into the one           *)
(* expression Binary{Binary{a, op1, b}, op2, c}.                           *)
C26_LevelsAreLeftAssociative ==
    (phase = "returned" /\ IsLevelChain(parser.tokens)) =>
        /\ statements =
              <<StmtExpression(
                  LeftNested(parser.tokens, Len(parser.tokens) - 2))>>
        /\ parser.diag = <<>>

(* `a - b + c` has been parsed as (a - b) + c.                             *)
C26_Witness ==
    /\ phase = "returned"
    /\ parser.tokens = Chain(<<"Minus", "Plus">>) \o Kw(<<"Newline", "Eof">>)
    /\ statements =
          <<StmtExpression(
              ExprBinary(ExprBinary(ExprVariable(<<"a">>), "Minus",
                                    ExprVariable(<<"b">>)),
                         "Plus", ExprVariable(<<"c">>)))>>

---------------------------------------------------------------------------
(* The tokens of the kind k among the first n tokens.                      *)
CountUpTo(n, k) == Count(SubSeq(tokens, 1, n), k)

(* C27: at every point of the tokenization the number of Indent tokens     *)
(* added so far minus the number of Dedent tokens added so far is the      *)
(* length of the indentation stack minus 1; and no prefix of the token     *)
(* sequence has more Dedent than Indent tokens.                            *)
C27_IndentBalanceIsStackDepth ==
    /\ Count(tokens, "Indent") - Count(tokens, "Dedent")
          = Len(indent_stack) - 1
    /\ \A n \in 0..Len(tokens) :
          CountUpTo(n, "Dedent") <= CountUpTo(n, "Indent")

(* Two Indent tokens and two Dedent tokens have been added, and the stack  *)
(* is back at its bottom entry.                                            *)
C27_Witness ==
    /\ status = "running"
    /\ Count(tokens, "Indent") = 2
    /\ Count(tokens, "Dedent") = 2
    /\ indent_stack = <<0>>

---------------------------------------------------------------------------
(* The position of the first Eof token of ts.                              *)
FirstEof(ts) ==
    CHOOSE i \in 1..Len(ts) :
        /\ ts[i].token_type = "Eof"
        /\ \A j \in 1..(i - 1) : ts[j].token_type # "Eof"

(* An iteration of the loop of parse(): the cursor does not decrease, it   *)
(* grows by one token at least, and it does not pass the first Eof.        *)
CursorAdvances ==
    /\ parser'.current >= parser.current
    /\ (phase = "parsing" /\ ~is_at_end(parser)) =>
          parser'.current >= parser.current + 1
    /\ parser'.current < FirstEof(parser'.tokens)

(* C28: parse() terminates on every sequence that ends with Eof, because   *)
(* in every iteration of its loop the cursor does not decrease, moves by   *)
(* one token at least, and does not move past the first Eof, where the     *)
(* loop ends.                                                              *)
C28_ParseTerminates == [][CursorAdvances]_vars

(* `) a` and a newline, then Eof and further tokens: the failed production *)
(* on `)` has been followed by the skip of one token, the statement `a`    *)
(* has been returned, and parse() has returned with the cursor on the      *)
(* first Eof.                                                              *)
C28_Witness ==
    /\ phase = "returned"
    /\ parser.tokens = <<Tk("RParen"), Id("a"), Tk("Newline"), Tk("Eof"),
                         Id("b"), Tk("Newline"), Tk("Eof")>>
    /\ parser.current = 3
    /\ statements = <<StmtExpression(ExprVariable(<<"a">>))>>

---------------------------------------------------------------------------
CompoundNodes == {"If", "While", "For", "Try", "FunctionDef", "ClassDef"}

(* C29: block bodies are all-or-nothing.  When a declaration inside the    *)
(* body of an if or else, while, for, try or except, def or class returns  *)
(* nothing, the enclosing production returns nothing as well, and parse()  *)
(* returns no compound statement with the part of the body that had been   *)
(* parsed.                                                                 *)
C29_BlocksAreAllOrNothing ==
    \A header \in BlockHeaders, broken \in NoDeclarations :
        parser.tokens = BrokenBlockOf(header, broken) \o <<Tk("Eof")>> =>
            /\ (phase = "parsing" /\ parser.current = 0) =>
                  ~declaration(parser).some
            /\ \A i \in 1..Len(statements) :
                  statements[i].node \notin CompoundNodes

(* `while a:` with the body `pass`, a stray Newline, `pass`: parse() has   *)
(* returned the second `pass` only, as a statement of its own.             *)
C29_Witness ==
    /\ phase = "returned"
    /\ parser.tokens =
          BrokenBlockOf(Kw(<<"While">>) \o <<Id("a")>>, Kw(<<"Newline">>))
            \o <<Tk("Eof")>>
    /\ statements = <<StmtPass>>

---------------------------------------------------------------------------
(* The position of the character that ends the string literal whose first  *)
(* character is at position i of the text s (Len(s) + 1 at the end of the  *)
(* text); a backslash takes the next character with it.                    *)
RECURSIVE StringEndPosition(_, _, _)
StringEndPosition(s, i, q) ==
    IF i > Len(s) THEN Len(s) + 1
    ELSE IF s[i] = q THEN i
    ELSE IF s[i] = "\\" THEN StringEndPosition(s, i + 2, q)
    ELSE IF s[i] = "\n" THEN i
    ELSE StringEndPosition(s, i + 1, q)

(* The step scans a string literal that a newline ends.                    *)
AbandonedAtNewline ==
    /\ LexString
    /\ StringEnd(src, current + 2, src[current + 1]) = "newline"

(* C30: a step of handle_string on a literal that an embedded newline ends *)
(* consumes the newline: it adds no token, so no Newline, Indent or Dedent *)
(* token, leaves the indentation stack as it is, and leaves the cursor on  *)
(* the first character after the newline, where scanning resumes.          *)
C30_NewlineInStringIsConsumed ==
    [][AbandonedAtNewline
         => /\ tokens' = tokens
            /\ indent_stack' = indent_stack
            /\ current' =
                  StringEndPosition(src, current + 2, src[current + 1])
            /\ status' = "running"]_vars

(* The literal of `"` and a newline has been abandoned before a tab: the   *)
(* cursor is on the tab, there is no token, and the stack is at its bottom *)
(* entry.                                                                  *)
C30_Witness ==
    /\ src = <<"\"", "\n", "\t">>
    /\ current = 2
    /\ tokens = <<>>
    /\ indent_stack = <<0>>
    /\ diag = <<"Unterminated string">>
    /\ status = "running"

====
